---- MODULE Spec2Model ----
(***************************************************************************)
(* A model of the definition parser and the parameter resolvers of the     *)
(* geodesy crate: Context::gys_to_yaml, Context::is_gys, GysResource::new,  *)
(* GysArgs, OperatorArgs and ParsedParameters::new, and of the inner       *)
(* operators utm, butm and laea with the guards of their kernels.          *)
(*                                                                         *)
(* Text is a sequence of one-character strings, so that trimming, sigil    *)
(* stripping, splitting and joining are computed as the code computes      *)
(* them.                                                                   *)
(***************************************************************************)
EXTENDS Integers, Sequences, FiniteSets, TLC

VARIABLES
    \* GysArgs (src/src/context/gys.rs)
    globals, locals, used,
    \* one call of GysArgs::value
    pc, rawKey, key, needle, default, chasing, hay, value, searches, trail,
    \* the calls made so far on this GysArgs
    budget, prevKey, prevValue, usedAtCall,
    \* the result of GysArgs::flag
    flag,
    \* OperatorArgs (src/src/operators.rs)
    opArgs, opUsed, opAllUsed,
    \* one call of OperatorArgs::value, numeric_value or boolean_value
    opPc, opCaller, opKey, opDefault, opCur, opDepth, opResult, opCalls,
    \* ParsedParameters::new (src/src/bin/geod/parsed_parameters.rs): its
    \* arguments, its place in the loop over the gamut, its bins, its result
    ppGlobals, ppLocals, gamut, ppPc, ppIdx, ppBins, ppResult, ppParsed,
    \* Context::gys_to_yaml (src/src/context/gys.rs): the definition that
    \* is written, the text that writes it, the text returned
    gysSteps, gysLayout, gysText, yaml, gysPc,
    \* the result of Context::is_gys, and the GysResource of GysResource::new
    detected, resource,
    \* an inner operator (src/src/inner_op): which constructor is called, its
    \* position, the Op it returns, the operands as they were given, the
    \* operands, and the success count of the last call of fwd or inv
    kernel, innerPc, innerOp, before, operands, applied,
    \* CoordinateTuple (src/src/coordinates.rs): the arguments of a
    \* constructor or of a conversion, the last call, and its result
    ctIn, ctPc, ctOut

argVars == <<globals, locals, used, pc, rawKey, key, needle, default, chasing,
             hay, value, searches, trail, budget, prevKey, prevValue,
             usedAtCall, flag>>

opVars == <<opArgs, opUsed, opAllUsed, opPc, opCaller, opKey, opDefault, opCur,
            opDepth, opResult, opCalls>>

ppVars == <<ppGlobals, ppLocals, gamut, ppPc, ppIdx, ppBins, ppResult, ppParsed>>

gysVars == <<gysSteps, gysLayout, gysText, yaml, gysPc, detected, resource>>

innerVars == <<kernel, innerPc, innerOp, before, operands, applied>>

ctVars == <<ctIn, ctPc, ctOut>>

vars == <<argVars, opVars, ppVars, gysVars, innerVars, ctVars>>

----------------------------------------------------------------------------
(* Text helpers: str::trim, str::strip_prefix, ...                          *)

\* char::is_whitespace, for the characters the model uses
IsWhitespace(c) == c \in {" ", "\t", "\n", "\r"}

RECURSIVE TrimStart(_)
\* str::trim_start
TrimStart(s) ==
    IF s # <<>> /\ IsWhitespace(Head(s)) THEN TrimStart(Tail(s)) ELSE s

RECURSIVE TrimEnd(_)
\* str::trim_end
TrimEnd(s) ==
    IF s # <<>> /\ IsWhitespace(s[Len(s)])
    THEN TrimEnd(SubSeq(s, 1, Len(s) - 1))
    ELSE s

\* str::trim
Trim(s) == TrimEnd(TrimStart(s))

\* str::starts_with(char)
StartsWith(s, c) == s # <<>> /\ Head(s) = c

\* str::ends_with(char)
EndsWith(s, c) == s # <<>> /\ s[Len(s)] = c

----------------------------------------------------------------------------
(* GysArgs                                                                  *)

\* A bound: the number of entries of globals and locals together
MaxArgs == 3

\* A bound: the number of entries when value() is called more than once
MaxRepeatArgs == 2

\* A bound: the number of value() calls when it is called more than once
MaxCalls == 2

\* The keys of the entries
ArgKeys == {<<"a">>, <<"b">>}

\* The values of the entries: plain, padded, lookups, defaults
ArgValues ==
    { <<"v">>, <<" ", "w", " ">>,
      <<"^", "a">>, <<" ", "^", "b", " ">>,
      <<"*", "d">>, <<"*">> }

\* The keys value() is called with
CallKeys == {<<"a">>, <<" ", "b", " ">>, <<" ">>}

ArgEntries == ArgKeys \X ArgValues

\* All lists of at most n entries
ArgLists(n) == UNION {[1..m -> ArgEntries] : m \in 0..n}

\* Results of value(): Ok(Some(v)), Ok(None), Err(GeodesyError::Syntax(..))
Some(v) == <<"Some", v>>
None == <<"None">>
ErrEmptyKey == <<"Err", "Empty key">>
ErrIncomplete(k) == <<"Err", "Incomplete definition for", k>>
IsErr(r) == r[1] = "Err"
NoValue == <<"pending">>

\* self.globals.iter().chain(self.locals.iter()): the haystack, which
\* value() walks from its last element to its first
Chain == globals \o locals

\* The find of a mutant that walks the haystack from its first element
FindFirst(chain, h, n) ==
    LET hits == {i \in 1..h : chain[i][1] = n}
    IN  IF hits = {} THEN 0 ELSE CHOOSE i \in hits : \A j \in hits : i <= j

\* haystack.find(|&x| x.0 == needle) on the reversed chain, of which the
\* elements 1..h are left: the index found, or 0
Find(chain, h, n) ==
    LET hits == {i \in 1..h : chain[i][1] = n}
    IN  IF hits = {} THEN 0 ELSE CHOOSE i \in hits : \A j \in hits : j <= i

\* The iterator of a mutant whose find() does not consume what it returns
RestKeepsFound(chain, found) == found

\* The iterator of a mutant that searches a looked-up name from the top again
RestFromTop(chain, found) == Len(chain)

\* What is left of the iterator after find() has returned element `found`
Rest(chain, found) == found - 1

\* The return of a mutant that forgets that it was chasing
NotFoundNoChase(d, c, k) ==
    IF d # <<>> THEN Some(d) ELSE None

\* The return of value() when find() finds nothing
NotFound(d, c, k) ==
    IF d # <<>> THEN Some(d)
    ELSE IF c THEN ErrIncomplete(k)
    ELSE None

\* The needle of a mutant that takes a default for a lookup
DefaultNeedleAsLookup(k, stripped) == stripped

\* The needle after a default `*text`: the search goes on for the same key
DefaultNeedle(k, stripped) == k

\* The push of a mutant that records every return
UsedAfterAlways(u, k, r, broke) ==
    Append(u, <<k, IF r[1] = "Some" THEN r[2] ELSE <<>> >>)

\* self.used after value() returns r for key k: a push only behind the
\* break, which no return from inside the loop reaches
UsedAfter(u, k, r, broke) == IF broke THEN Append(u, <<k, r[2]>>) ELSE u

\* One pass of the loop of GysArgs::value on the loop's variables s: a find,
\* then a return, a new needle, or the break
LoopPass(chain, s) ==
    LET found == Find(chain, s.hay, s.needle)
        thevalue == Trim(chain[found][2])
    IN  IF found = 0
        THEN [s EXCEPT !.hay = 0, !.done = TRUE,
                       !.value = NotFound(s.default, s.chasing, s.key)]
        ELSE IF StartsWith(thevalue, "^")
        THEN [s EXCEPT !.hay = Rest(chain, found), !.chasing = TRUE,
                       !.needle = Tail(thevalue)]
        ELSE IF StartsWith(thevalue, "*")
        THEN [s EXCEPT !.hay = Rest(chain, found), !.chasing = TRUE,
                       !.needle = DefaultNeedle(s.key, Tail(thevalue)),
                       !.default = Tail(thevalue)]
        ELSE [s EXCEPT !.hay = Rest(chain, found), !.done = TRUE,
                       !.value = Some(Trim(thevalue))]

\* The loop's variables as value() sets them before the loop
LoopStart(chain, k) ==
    [hay |-> Len(chain), needle |-> k, key |-> k, default |-> <<>>,
     chasing |-> FALSE, done |-> FALSE, value |-> NoValue]

RECURSIVE RunLoop(_, _)
\* The loop of GysArgs::value, run to its return
RunLoop(chain, s) ==
    IF s.done THEN s.value ELSE RunLoop(chain, LoopPass(chain, s))

\* let key = key.trim()
TrimKey(k) == Trim(k)

\* GysArgs::value as a function of the haystack and the key
ValueOf(chain, k) ==
    IF TrimKey(k) = <<>> THEN ErrEmptyKey
    ELSE RunLoop(chain, LoopStart(chain, TrimKey(k)))

\* No GysArgs in use
ArgsIdle ==
    /\ globals = <<>>
    /\ locals = <<>>
    /\ used = <<>>
    /\ pc = "unused"
    /\ rawKey = <<>>
    /\ key = <<>>
    /\ trail = <<>>
    /\ needle = <<>>
    /\ default = <<>>
    /\ chasing = FALSE
    /\ hay = 0
    /\ value = NoValue
    /\ searches = 0
    /\ budget = 0
    /\ prevKey = <<>>
    /\ prevValue = NoValue
    /\ usedAtCall = <<>>
    /\ flag = NoValue

\* GysArgs::new_symmetric, with the count of calls the model follows
ArgsInit(n, calls) ==
    /\ \E c \in ArgLists(n) : \E split \in 0..Len(c) :
          /\ globals = SubSeq(c, 1, split)
          /\ locals = SubSeq(c, split + 1, Len(c))
    /\ used = <<>>
    /\ pc = "idle"
    /\ rawKey = <<>>
    /\ key = <<>>
    /\ trail = <<>>
    /\ needle = <<>>
    /\ default = <<>>
    /\ chasing = FALSE
    /\ hay = 0
    /\ value = NoValue
    /\ searches = 0
    /\ budget = calls
    /\ prevKey = <<>>
    /\ prevValue = NoValue
    /\ usedAtCall = <<>>
    /\ flag = NoValue

\* GysArgs::value, up to the loop: trims the key, rejects an empty one
ValueCall(k) ==
    /\ pc \in {"idle", "returned"}
    /\ budget > 0
    /\ budget' = budget - 1
    /\ prevKey' = key
    /\ prevValue' = value
    /\ usedAtCall' = used
    /\ rawKey' = k
    /\ key' = TrimKey(k)
    /\ searches' = 0
    /\ trail' = <<>>
    /\ default' = <<>>
    /\ chasing' = FALSE
    /\ needle' = TrimKey(k)
    /\ hay' = Len(Chain)
    /\ IF TrimKey(k) = <<>>
       THEN /\ value' = ErrEmptyKey
            /\ pc' = "returned"
       ELSE /\ value' = NoValue
            /\ pc' = "loop"
    /\ UNCHANGED <<globals, locals, used, flag>>
    /\ UNCHANGED <<opVars, ppVars, gysVars, innerVars, ctVars>>

\* One pass of the loop of GysArgs::value, and behind the break the push
\* onto used
ValueSearch ==
    /\ pc = "loop"
    /\ searches' = searches + 1
    /\ trail' = LET found == Find(Chain, hay, needle)
                IN  IF found = 0 THEN trail ELSE Append(trail, found)
    /\ LET s == LoopPass(Chain, [hay |-> hay, needle |-> needle, key |-> key,
                                 default |-> default, chasing |-> chasing,
                                 done |-> FALSE, value |-> NoValue])
       IN  /\ hay' = s.hay
           /\ needle' = s.needle
           /\ default' = s.default
           /\ chasing' = s.chasing
           /\ value' = s.value
           /\ pc' = IF s.done THEN "returned" ELSE "loop"
           /\ used' = IF s.done
                      THEN UsedAfter(used, key, s.value,
                                     Find(Chain, hay, needle) # 0)
                      ELSE used
    /\ UNCHANGED <<globals, locals, rawKey, key, budget, prevKey, prevValue,
                   usedAtCall, flag>>
    /\ UNCHANGED <<opVars, ppVars, gysVars, innerVars, ctVars>>

ArgsNext ==
    \/ \E k \in CallKeys : ValueCall(k)
    \/ ValueSearch

----------------------------------------------------------------------------
(* OperatorArgs                                                             *)

\* A bound: the number of value calls followed on one OperatorArgs
MaxOpCalls == 2

\* A bound: the deepest recursion of value_recursive_search that is followed
MaxOpDepth == 6

\* The keys and values of the table; "3" is numeric, "f" is not
OpKeys == {<<"p">>, <<"q">>, <<"r">>}
OpValues == {<<"3">>, <<"f">>, <<"^", "p">>, <<"^", "q">>, <<"^", "r">>}

\* The defaults value() is called with
OpDefaults == {<<>>, <<"3">>}

\* The tables append() is called with
OpAdditional ==
    { (<<"p">> :> <<"^", "q">>) @@ (<<"q">> :> <<"^", "p">>),
      (<<"q">> :> <<"^", "r">>) @@ (<<"r">> :> <<"3">>) }

EmptyMap == [k \in {} |-> <<>>]

\* HashMap::insert
MapInsert(m, k, v) == [x \in DOMAIN m \cup {k} |-> IF x = k THEN v ELSE m[x]]

\* "false", the default of boolean_value
FalseText == <<"f", "a", "l", "s", "e">>

NaN == "NaN"

Digits == {"0", "1", "2", "3", "4", "5", "6", "7", "8", "9"}

DigitValue(c) ==
    CASE c = "0" -> 0 [] c = "1" -> 1 [] c = "2" -> 2 [] c = "3" -> 3
      [] c = "4" -> 4 [] c = "5" -> 5 [] c = "6" -> 6 [] c = "7" -> 7
      [] c = "8" -> 8 [] c = "9" -> 9

IsDigits(s) == s # <<>> /\ \A i \in 1..Len(s) : s[i] \in Digits

RECURSIVE DigitsValue(_)
\* The number a string of decimal digits writes
DigitsValue(s) ==
    IF s = <<>> THEN 0
    ELSE 10 * DigitsValue(SubSeq(s, 1, Len(s) - 1)) + DigitValue(s[Len(s)])

\* arg.parse().unwrap_or(f64::NAN), for the texts of the model
ParseOrNaN(s) == IF IsDigits(s) THEN DigitsValue(s) ELSE NaN

\* No OperatorArgs in use
OpIdle ==
    /\ opArgs = EmptyMap
    /\ opUsed = EmptyMap
    /\ opAllUsed = EmptyMap
    /\ opPc = "unused"
    /\ opCaller = "none"
    /\ opKey = <<>>
    /\ opDefault = <<>>
    /\ opCur = <<>>
    /\ opDepth = 0
    /\ opResult = NoValue
    /\ opCalls = 0

\* OperatorArgs::new
OpInit ==
    /\ opArgs = EmptyMap
    /\ opUsed = EmptyMap
    /\ opAllUsed = EmptyMap
    /\ opPc = "idle"
    /\ opCaller = "none"
    /\ opKey = <<>>
    /\ opDefault = <<>>
    /\ opCur = <<>>
    /\ opDepth = 0
    /\ opResult = NoValue
    /\ opCalls = 0

\* OperatorArgs::insert
Insert(k, v) ==
    /\ opPc = "idle"
    /\ opCalls = 0
    /\ opArgs' = MapInsert(opArgs, k, v)
    /\ UNCHANGED <<opUsed, opAllUsed, opPc, opCaller, opKey, opDefault, opCur,
                   opDepth, opResult, opCalls>>
    /\ UNCHANGED <<argVars, ppVars, gysVars, innerVars, ctVars>>

\* OperatorArgs::append: an insert of every entry of the other table
AppendArgs(additional) ==
    /\ opPc = "idle"
    /\ opCalls = 0
    /\ opArgs' = [x \in DOMAIN opArgs \cup DOMAIN additional |->
                    IF x \in DOMAIN additional THEN additional[x] ELSE opArgs[x]]
    /\ UNCHANGED <<opUsed, opAllUsed, opPc, opCaller, opKey, opDefault, opCur,
                   opDepth, opResult, opCalls>>
    /\ UNCHANGED <<argVars, ppVars, gysVars, innerVars, ctVars>>

\* The entry into value_recursive_search from value(key, default)
OpEnter(caller, k, d) ==
    /\ opPc \in {"idle", "returned"}
    /\ opCalls < MaxOpCalls
    /\ opCalls' = opCalls + 1
    /\ opCaller' = caller
    /\ opKey' = k
    /\ opDefault' = d
    /\ opCur' = k
    /\ opDepth' = 1
    /\ opResult' = NoValue
    /\ opPc' = "search"
    /\ UNCHANGED <<opArgs, opUsed, opAllUsed>>
    /\ UNCHANGED <<argVars, ppVars, gysVars, innerVars, ctVars>>

\* OperatorArgs::value
Value(k, d) == OpEnter("value", k, d)

\* OperatorArgs::numeric_value: value(key, "")
NumericValue(k) == OpEnter("numeric_value", k, <<>>)

\* OperatorArgs::boolean_value: value(key, "false")
BooleanValue(k) == OpEnter("boolean_value", k, FalseText)

\* What the caller makes of the arg that value() returns
OpConvert(caller, arg) ==
    CASE caller = "numeric_value" ->
             IF arg = <<>> THEN "default" ELSE ParseOrNaN(arg)
      [] caller = "boolean_value" -> arg # FalseText
      [] OTHER -> arg

\* The return of value_recursive_search with arg, through all of its frames,
\* and the rest of value(): the entry in used
OpReturn(arg) ==
    /\ opPc' = "returned"
    /\ opDepth' = 0
    /\ opUsed' = IF arg # opDefault THEN MapInsert(opUsed, opKey, arg) ELSE opUsed
    /\ opResult' = OpConvert(opCaller, arg)

\* One frame of value_recursive_search: the get, the entry in all_used, and
\* the call of itself behind a '^' or the return
RecursiveSearch ==
    /\ opPc = "search"
    /\ opDepth < MaxOpDepth
    /\ IF opCur \notin DOMAIN opArgs
       THEN /\ OpReturn(opDefault)
            /\ UNCHANGED <<opAllUsed, opCur>>
       ELSE /\ opAllUsed' = MapInsert(opAllUsed, opCur, opArgs[opCur])
            /\ IF StartsWith(opArgs[opCur], "^")
               THEN /\ opCur' = Tail(opArgs[opCur])
                    /\ opDepth' = opDepth + 1
                    /\ UNCHANGED <<opPc, opUsed, opResult>>
               ELSE /\ OpReturn(opArgs[opCur])
                    /\ UNCHANGED opCur
    /\ UNCHANGED <<opArgs, opCaller, opKey, opDefault, opCalls>>
    /\ UNCHANGED <<argVars, ppVars, gysVars, innerVars, ctVars>>

OpNext ==
    \/ \E k \in OpKeys, v \in OpValues : Insert(k, v)
    \/ \E t \in OpAdditional : AppendArgs(t)
    \/ \E k \in OpKeys, d \in OpDefaults : Value(k, d)
    \/ \E k \in OpKeys : NumericValue(k)
    \/ \E k \in OpKeys : BooleanValue(k)
    \/ RecursiveSearch

----------------------------------------------------------------------------
(* ParsedParameters::new                                                    *)

\* A bound: the number of entries of the gamut
MaxGamut == 2

\* A bound: the depth to which chase follows lookups
MaxChase == 3

\* str::split(char): the pieces between the separators, one more than there
\* are separators
RECURSIVE Split(_, _)
Split(s, c) ==
    IF \A i \in 1..Len(s) : s[i] # c THEN <<s>>
    ELSE LET at == CHOOSE i \in 1..Len(s) :
                      s[i] = c /\ \A j \in 1..(i - 1) : s[j] # c
         IN  <<SubSeq(s, 1, at - 1)>> \o Split(SubSeq(s, at + 1, Len(s)), c)

\* char::to_lowercase, for the letters the model uses
LowerChar(c) ==
    CASE c = "T" -> "t" [] c = "R" -> "r" [] c = "U" -> "u" [] c = "E" -> "e"
      [] c = "F" -> "f" [] c = "A" -> "a" [] c = "L" -> "l" [] c = "S" -> "s"
      [] c = "N" -> "n" [] c = "I" -> "i"
      [] OTHER -> c

\* str::to_lowercase
ToLowercase(s) == [i \in 1..Len(s) |-> LowerChar(s[i])]

TrueText == <<"t", "r", "u", "e">>

Ok(v) == <<"Ok", v>>
IsOk(r) == r[1] = "Ok"
ParseError == <<"ParseError">>

\* str::parse::<usize>: digits behind an optional '+'
ParseUsize(s) ==
    LET d == IF StartsWith(s, "+") THEN Tail(s) ELSE s
    IN  IF IsDigits(d) THEN Ok(DigitsValue(d)) ELSE ParseError

\* str::parse::<i64>: digits behind an optional sign
ParseI64(s) ==
    LET d == IF StartsWith(s, "+") \/ StartsWith(s, "-") THEN Tail(s) ELSE s
    IN  IF ~IsDigits(d) THEN ParseError
        ELSE IF StartsWith(s, "-") THEN Ok(0 - DigitsValue(d))
        ELSE Ok(DigitsValue(d))

\* The texts that parse::<f64> reads as not-a-number and as infinity,
\* whatever the case of their letters
NanText == <<"n", "a", "n">>
InfText == <<"i", "n", "f">>

\* str::parse::<f64>, for numbers without exponent: the sign, the digits
\* before the point and the digits behind it; for nan and inf the sign and
\* the word
ParseF64(s) ==
    LET d == IF StartsWith(s, "+") \/ StartsWith(s, "-") THEN Tail(s) ELSE s
        parts == Split(d, ".")
        int == parts[1]
        frac == IF Len(parts) = 2 THEN parts[2] ELSE <<>>
        digits == int \o frac
        sign == IF StartsWith(s, "-") THEN -1 ELSE 1
    IN  IF ToLowercase(d) \in {NanText, InfText}
        THEN Ok(<<sign, 0, ToLowercase(d)>>)
        ELSE IF Len(parts) > 2 \/ ~IsDigits(digits) THEN ParseError
        ELSE Ok(<<sign, DigitsValue(int), frac>>)

\* The series of a mutant that reads the first element only
ParseSeriesFirst(s) ==
    LET elements == Split(s, ",")
    IN  IF ~IsOk(ParseF64(elements[1])) THEN ParseError
        ELSE Ok(<<ParseF64(elements[1])[2]>>)

\* The elements of a series, or ParseError: value.split(','), each element
\* parsed as f64
ParseSeries(s) ==
    LET elements == Split(s, ",")
    IN  IF \E i \in 1..Len(elements) : ~IsOk(ParseF64(elements[i]))
        THEN ParseError
        ELSE Ok([i \in 1..Len(elements) |-> ParseF64(elements[i])[2]])

\* Errors of ParsedParameters::new
MissingParam(k) == <<"Err", "MissingParam", k>>
BadParam(k, v) == <<"Err", "BadParam", k, v>>
ErrRecursion(k) == <<"Err", "Recursion", k>>

RECURSIVE ChaseFrom(_, _, _, _, _, _, _)
\* etc::chase from one scope on: scope 2 is the locals, scope 1 the globals.
\* A lookup ^name starts again at the locals, for name; a default *text is
\* staged and the next scope is asked for the same key.
ChaseFrom(g, l, k, n, scope, d, depth) ==
    IF scope = 0
    THEN IF d # <<>> THEN Some(d)
         ELSE IF depth > 0 THEN ErrIncomplete(k)
         ELSE None
    ELSE LET m == IF scope = 2 THEN l ELSE g
         IN  IF n \notin DOMAIN m THEN ChaseFrom(g, l, k, n, scope - 1, d, depth)
             ELSE LET v == Trim(m[n])
                  IN  IF StartsWith(v, "^")
                      THEN IF depth >= MaxChase THEN ErrRecursion(k)
                           ELSE ChaseFrom(g, l, k, Tail(v), 2, d, depth + 1)
                      ELSE IF StartsWith(v, "*")
                      THEN ChaseFrom(g, l, k, n, scope - 1, Tail(v), depth + 1)
                      ELSE Some(v)

\* etc::chase(globals, &locals, key)
Chase(g, l, k) == ChaseFrom(g, l, k, k, 2, <<>>, 0)

\* OpParameter
Flag(k) == [type |-> "Flag", key |-> k, default |-> None]
Natural(k, d) == [type |-> "Natural", key |-> k, default |-> d]
Integer(k, d) == [type |-> "Integer", key |-> k, default |-> d]
Real(k, d) == [type |-> "Real", key |-> k, default |-> d]
Series(k, d) == [type |-> "Series", key |-> k, default |-> d]
Text(k, d) == [type |-> "Text", key |-> k, default |-> d]

NameKey == <<"n", "a", "m", "e">>
Unknown == <<"u", "n", "k", "n", "o", "w", "n">>

\* The schema entries of the model: for a key k that the definition or the
\* globals may hold, and for a key m that they never hold. A default is
\* written as its decimal text, whatever its type.
GamutEntries ==
    { Flag(<<"k">>), Natural(<<"k">>, None), Integer(<<"k">>, None),
      Real(<<"k">>, None), Series(<<"k">>, None), Text(<<"k">>, None),
      Flag(<<"m">>), Natural(<<"m">>, None), Natural(<<"m">>, Some(<<"0">>)),
      Integer(<<"m">>, Some(<<"-", "1">>)),
      Real(<<"m">>, Some(<<"1", ".", "2", "5">>)),
      Series(<<"m">>, None), Series(<<"m">>, Some(<<"1", ",", "2">>)),
      Series(<<"m">>, Some(<<>>)), Text(<<"m">>, Some(<<"t">>)) }

\* The locals of the model: the name, the key k, a key u no schema declares
PpLocalsSet ==
    { [x \in D |-> IF x = NameKey THEN <<"o", "p">>
                   ELSE IF x = <<"u">> THEN <<"7">>
                   ELSE v] :
        D \in SUBSET {NameKey, <<"k">>, <<"u">>},
        v \in {<<"7">>, <<"x">>, <<>>, <<"^", "u">>, <<"T", "r", "u", "e">>,
               <<"f", "a", "l", "s", "e">>, <<"1", ",", "2">>,
               <<"1", ",", "x">>} }

\* The globals of the model
PpGlobalsSet == {EmptyMap, (<<"k">> :> <<"7">>)}

\* The bins of a ParsedParameters under construction
NoBins ==
    [boolean |-> {}, natural |-> EmptyMap, integer |-> EmptyMap,
     real |-> EmptyMap, series |-> EmptyMap, text |-> EmptyMap]

\* The value of type t that the text v writes, or ParseError
Typed(t, v) ==
    CASE t = "Natural" -> ParseUsize(v)
      [] t = "Integer" -> ParseI64(v)
      [] t = "Real" -> ParseF64(v)
      [] t = "Series" -> ParseSeries(v)
      [] t = "Text" -> Ok(v)
      [] t = "Flag" -> IF v = <<>> \/ ToLowercase(v) = TrueText
                       THEN Ok(TRUE) ELSE ParseError

\* The return of a mutant for a missing parameter: nothing, as for a flag
MissingAsContinue(p) == <<"continue">>

\* The return for a parameter that is neither found nor has a default
Missing(p) == MissingParam(p.key)

\* The entry the default of p gives: what to insert, nothing, or an error
FromDefault(p) ==
    IF p.default = None THEN Missing(p)
    ELSE IF p.type = "Series"
    THEN IF p.default[2] = <<>> THEN <<"continue">>
         ELSE IF IsOk(ParseSeries(p.default[2]))
         THEN <<"insert", ParseSeries(p.default[2])[2]>>
         ELSE BadParam(p.key, p.default[2])
    ELSE <<"insert", Typed(p.type, p.default[2])[2]>>

\* The entry a found value gives: what to insert, or BadParam
FromValue(p, v) ==
    IF IsOk(Typed(p.type, v)) THEN <<"insert", Typed(p.type, v)[2]>>
    ELSE BadParam(p.key, v)

\* One arm of the match over the gamut: the chase, with its error handed on,
\* then the value, the default, or for a flag nothing
Arm(p, g, l) ==
    LET chased == Chase(g, l, p.key)
    IN  IF IsErr(chased) THEN chased
        ELSE IF chased # None THEN FromValue(p, chased[2])
        ELSE IF p.type = "Flag" THEN <<"continue">>
        ELSE FromDefault(p)

\* The bins with the outcome of one arm inserted
Binned(bins, p, out) ==
    IF out[1] # "insert" THEN bins
    ELSE CASE p.type = "Flag" ->
                [bins EXCEPT !.boolean = @ \cup {p.key}]
           [] p.type = "Natural" ->
                [bins EXCEPT !.natural = MapInsert(@, p.key, out[2])]
           [] p.type = "Integer" ->
                [bins EXCEPT !.integer = MapInsert(@, p.key, out[2])]
           [] p.type = "Real" ->
                [bins EXCEPT !.real = MapInsert(@, p.key, out[2])]
           [] p.type = "Series" ->
                [bins EXCEPT !.series = MapInsert(@, p.key, out[2])]
           [] p.type = "Text" ->
                [bins EXCEPT !.text = MapInsert(@, p.key, out[2])]

\* An f64 as a unit and a decimal number in billionths: <<"f64", i, n>> is
\* i + n / 10^9, and <<"rad", i, n>> is that number of degrees expressed
\* in radians. The two parts of a negative number are both negative.
F64(i, n) == <<"f64", i, n>>

\* [0.; 4], the fixed slots as ParsedParameters::new leaves them
ZeroSlots == <<F64(0, 0), F64(0, 0), F64(0, 0), F64(0, 0)>>

\* locals.into_keys().collect(): every key of the locals
Ignored(l, schema) == DOMAIN l

\* No ParsedParameters under construction
PpIdle ==
    /\ ppGlobals = EmptyMap
    /\ ppLocals = EmptyMap
    /\ gamut = <<>>
    /\ ppPc = "unused"
    /\ ppIdx = 0
    /\ ppBins = NoBins
    /\ ppResult = NoValue
    /\ ppParsed = NoValue

\* ParsedParameters::new before its loop: the locals split from the
\* definition, the globals, the empty bins
PpInit ==
    /\ ppGlobals \in PpGlobalsSet
    /\ ppLocals \in PpLocalsSet
    /\ gamut \in UNION {[1..n -> GamutEntries] : n \in 0..MaxGamut}
    /\ ppPc = "loop"
    /\ ppIdx = 1
    /\ ppBins = NoBins
    /\ ppResult = NoValue
    /\ ppParsed = NoValue

\* One pass of `for p in gamut`: an insert, a continue, or the return of
\* an error
ParseParameter ==
    /\ ppPc = "loop"
    /\ ppIdx <= Len(gamut)
    /\ LET p == gamut[ppIdx]
           out == Arm(p, ppGlobals, ppLocals)
       IN  IF IsErr(out)
           THEN /\ ppResult' = out
                /\ ppPc' = "done"
                /\ UNCHANGED <<ppIdx, ppBins>>
           ELSE /\ ppBins' = Binned(ppBins, p, out)
                /\ ppIdx' = ppIdx + 1
                /\ UNCHANGED <<ppResult, ppPc>>
    /\ UNCHANGED <<ppGlobals, ppLocals, gamut, ppParsed>>
    /\ UNCHANGED <<argVars, opVars, gysVars, innerVars, ctVars>>

\* ParsedParameters::new behind its loop: the name, the ignored keys, Ok(..)
Construct ==
    /\ ppPc = "loop"
    /\ ppIdx > Len(gamut)
    /\ ppParsed' = <<"ParsedParameters",
                     [name |-> IF NameKey \in DOMAIN ppLocals
                               THEN ppLocals[NameKey] ELSE Unknown,
                      lat |-> ZeroSlots, lon |-> ZeroSlots, x |-> ZeroSlots,
                      y |-> ZeroSlots, k |-> ZeroSlots,
                      bins |-> ppBins,
                      ignored |-> Ignored(ppLocals, gamut)]>>
    /\ ppResult' = <<"Ok">>
    /\ ppPc' = "done"
    /\ UNCHANGED <<ppGlobals, ppLocals, gamut, ppIdx, ppBins>>
    /\ UNCHANGED <<argVars, opVars, gysVars, innerVars, ctVars>>

PpNext == ParseParameter \/ Construct

----------------------------------------------------------------------------
(* GysArgs::flag                                                            *)

\* A bound: the number of entries of globals and locals together when
\* flag() is called
MaxFlagArgs == 2

\* The values of the entries when flag() is called: a bare key, 'false' in
\* two letter cases, another text, a lookup, a default
FlagValues ==
    { <<>>, <<"f", "a", "l", "s", "e">>, <<"F", "a", "L", "s", "E">>,
      <<"3", "3">>, <<"^", "b">>, <<"*", "f", "a", "l", "s", "e">> }

\* The keys flag() is called with: two that may be there, one that is not
FlagKeys == {<<"a">>, <<" ", "b", " ">>, <<"c">>}

FlagLists(n) == UNION {[1..m -> ArgKeys \X FlagValues] : m \in 0..n}

FalseChars == <<"f", "a", "l", "s", "e">>

\* The test of a mutant that compares the value as it is written
IsTrueAsWritten(v) == v # FalseChars

\* value.to_lowercase() != "false"
IsTrue(v) == ToLowercase(v) # FalseChars

RECURSIVE Breaks(_, _)
\* The loop of GysArgs::value ends at its break, and not at a return
Breaks(chain, s) ==
    LET next == LoopPass(chain, s)
    IN  IF next.done THEN Find(chain, s.hay, s.needle) # 0
        ELSE Breaks(chain, next)

\* GysArgs::new_symmetric, before a call of flag()
FlagInit ==
    /\ \E c \in FlagLists(MaxFlagArgs) : \E split \in 0..Len(c) :
          /\ globals = SubSeq(c, 1, split)
          /\ locals = SubSeq(c, split + 1, Len(c))
    /\ used = <<>>
    /\ pc = "idle"
    /\ rawKey = <<>>
    /\ key = <<>>
    /\ trail = <<>>
    /\ needle = <<>>
    /\ default = <<>>
    /\ chasing = FALSE
    /\ hay = 0
    /\ value = NoValue
    /\ searches = 0
    /\ budget = 1
    /\ prevKey = <<>>
    /\ prevValue = NoValue
    /\ usedAtCall = <<>>
    /\ flag = NoValue

\* GysArgs::flag: the call of value() with its `?`, then the test
FlagCall(k) ==
    /\ pc = "idle"
    /\ budget > 0
    /\ LET v == ValueOf(Chain, k)
       IN  /\ value' = v
           /\ flag' = IF IsErr(v) THEN v
                      ELSE IF v # None /\ IsTrue(v[2]) THEN Ok(TRUE)
                      ELSE Ok(FALSE)
           /\ used' = IF TrimKey(k) # <<>>
                       THEN UsedAfter(used, TrimKey(k), v,
                                      Breaks(Chain, LoopStart(Chain, TrimKey(k))))
                       ELSE used
    /\ rawKey' = k
    /\ key' = TrimKey(k)
    /\ budget' = budget - 1
    /\ pc' = "flagged"
    /\ UNCHANGED <<globals, locals, needle, default, chasing, hay, searches,
                   trail, prevKey, prevValue, usedAtCall>>
    /\ UNCHANGED <<opVars, ppVars, gysVars, innerVars, ctVars>>

FlagNext == \E k \in FlagKeys : FlagCall(k)

----------------------------------------------------------------------------
(* Context::gys_to_yaml and Context::is_gys                                 *)

\* A bound: the number of steps of a definition
MaxSteps == 2

\* A bound: the number of arguments of a step
MaxStepArgs == 2

RECURSIVE Join(_, _)
\* [T]::join(sep)
Join(list, sep) ==
    IF list = <<>> THEN <<>>
    ELSE IF Len(list) = 1 THEN list[1]
    ELSE list[1] \o sep \o Join(Tail(list), sep)

\* str::find(pat): the first index at which pat begins in s, or 0
IndexOf(s, pat) ==
    LET at == {i \in 1..(Len(s) - Len(pat) + 1) :
                  SubSeq(s, i, i + Len(pat) - 1) = pat}
    IN  IF at = {} THEN 0 ELSE CHOOSE i \in at : \A j \in at : i <= j

\* str::contains(pat)
Contains(s, pat) == IndexOf(s, pat) > 0

\* str::lines: the text between the newlines, without the carriage return
\* before a newline, and without an empty last line
Lines(s) ==
    LET parts == Split(s, "\n")
        kept == IF parts[Len(parts)] = <<>>
                THEN SubSeq(parts, 1, Len(parts) - 1) ELSE parts
    IN  [i \in 1..Len(kept) |->
            IF EndsWith(kept[i], "\r")
            THEN SubSeq(kept[i], 1, Len(kept[i]) - 1) ELSE kept[i]]

RECURSIVE TrimMatches(_, _)
\* str::trim_matches(char)
TrimMatches(s, c) ==
    IF StartsWith(s, c) THEN TrimMatches(Tail(s), c)
    ELSE IF EndsWith(s, c) THEN TrimMatches(SubSeq(s, 1, Len(s) - 1), c)
    ELSE s

RECURSIVE SplitWhitespace(_)
\* str::split_whitespace: the non-empty runs of non-whitespace
SplitWhitespace(s) ==
    LET t == TrimStart(s)
        ws == {i \in 1..Len(t) : IsWhitespace(t[i])}
        end == IF ws = {} THEN Len(t) + 1
               ELSE CHOOSE i \in ws : \A j \in ws : i <= j
    IN  IF t = <<>> THEN <<>>
        ELSE <<SubSeq(t, 1, end - 1)>> \o SplitWhitespace(SubSeq(t, end, Len(t)))

RECURSIVE ReplaceColon(_)
\* e.replace(":", ": ")
ReplaceColon(e) ==
    IF e = <<>> THEN <<>>
    ELSE IF Head(e) = ":" THEN <<":", " ">> \o ReplaceColon(Tail(e))
    ELSE <<Head(e)>> \o ReplaceColon(Tail(e))

\* The is_gys of a mutant that merges the two tests for square brackets
IsGysMerged(gys) ==
    IF Contains(gys, <<" ", "|", " ">>) THEN TRUE
    ELSE IF StartsWith(gys, "|") THEN TRUE
    ELSE IF EndsWith(gys, "|") THEN TRUE
    ELSE IF StartsWith(gys, "[") /\ EndsWith(gys, "]") THEN TRUE
    ELSE LET tokens == SplitWhitespace(gys)
             first == IF tokens = <<>> THEN <<>> ELSE tokens[1]
         IN  ~EndsWith(first, ":")

\* The is_gys of a mutant that takes an opening bracket for the pair
IsGysOpening(gys) ==
    IF Contains(gys, <<" ", "|", " ">>) THEN TRUE
    ELSE IF StartsWith(gys, "|") THEN TRUE
    ELSE IF EndsWith(gys, "|") THEN TRUE
    ELSE IF StartsWith(gys, "[") THEN TRUE
    ELSE IF EndsWith(gys, "]") THEN StartsWith(gys, "[")
    ELSE LET tokens == SplitWhitespace(gys)
             first == IF tokens = <<>> THEN <<>> ELSE tokens[1]
         IN  ~EndsWith(first, ":")

\* Context::is_gys
IsGys(gys) ==
    IF Contains(gys, <<" ", "|", " ">>) THEN TRUE
    ELSE IF StartsWith(gys, "|") THEN TRUE
    ELSE IF EndsWith(gys, "|") THEN TRUE
    ELSE IF StartsWith(gys, "[") THEN EndsWith(gys, "]")
    ELSE IF EndsWith(gys, "]") THEN StartsWith(gys, "[")
    ELSE LET tokens == SplitWhitespace(gys)
             first == IF tokens = <<>> THEN <<>> ELSE tokens[1]
         IN  ~EndsWith(first, ":")

\* The texts gys_to_yaml writes
EmptyStepText == <<"E", "r", "r", "o", "r", ":", " ", "E", "m", "p", "t", "y", " ", "s", "t", "e", "p", "!">>
MissingValueText == <<"M", "i", "s", "s", "i", "n", "g", " ", "v", "a", "l", "u", "e", " ", "f", "o", "r", " ", "k", "e", "y", " ", "'">>
PipelineHead == <<"p", "i", "p", "e", "l", "i", "n", "e", "_", "f", "r", "o", "m", "_", "g", "y", "s", ":", " ", "{", "\n", " ", " ", "s", "t", "e", "p", "s", ":", " ", "[", "\n">>
PipelineTail == <<"\n", " ", " ", "]", "\n", "}">>
FirstIndent == <<" ", " ", " ", " ">>
NextIndent == <<",", "\n", " ", " ", " ", " ">>
TrueValue == <<":", " ", "t", "r", "u", "e">>

\* Strip inline comments: &step[..index] of the first '#', trimmed
Strip(step) ==
    LET at == IndexOf(step, <<"#">>)
    IN  IF at = 0 THEN Trim(step) ELSE Trim(SubSeq(step, 1, at - 1))

RECURSIVE StepArgs(_, _, _)
\* `for i in 1..n` over the elements of a step, from index i on (counted
\* from 0 as in the code): the text added to yaml, or the text returned;
\* skip tells that the last pass has emptied elements[i]
StepArgs(elements, i, skip) ==
    LET n == Len(elements)
        e == elements[i + 1]
        rest(k, sk) == StepArgs(elements, k, sk)
        then(text, r) == IF r[1] = "return" THEN r ELSE <<"yaml", text \o r[2]>>
    IN  IF i >= n THEN <<"yaml", <<>>>>
        ELSE IF skip THEN rest(i + 1, FALSE)
        ELSE IF EndsWith(e, ":")
        THEN IF i = n - 1
             THEN <<"return", MissingValueText \o e \o <<"'">>>>
             ELSE then(e \o <<" ">> \o elements[i + 2]
                          \o (IF i + 2 < n THEN <<",", " ">> ELSE <<>>),
                       rest(i + 1, TRUE))
        ELSE IF Contains(e, <<":">>)
        THEN then(ReplaceColon(e) \o (IF i + 1 < n THEN <<",", " ">> ELSE <<>>),
                  rest(i + 1, FALSE))
        ELSE then(e \o TrueValue \o (IF i + 1 < n THEN <<",", " ">> ELSE <<>>),
                  rest(i + 1, FALSE))

\* One pass of `for step in steps`: the text added to yaml behind the
\* indent, or the text returned
StepYaml(step) ==
    LET elements == SplitWhitespace(Strip(step))
        n == Len(elements)
        args == StepArgs(elements, 1, FALSE)
    IN  IF n = 0 THEN <<"return", EmptyStepText>>
        ELSE IF n = 1 THEN <<"yaml", elements[1] \o <<":", " ", "{", "}">>>>
        ELSE IF args[1] = "return" THEN args
        ELSE <<"yaml", elements[1] \o <<":", " ", "{">> \o args[2] \o <<"}">>>>

RECURSIVE StepsYaml(_, _)
\* `for step in steps`, with the indent that changes behind the first step
StepsYaml(steps, indent) ==
    IF steps = <<>> THEN <<"yaml", <<>>>>
    ELSE LET first == StepYaml(steps[1])
             rest == StepsYaml(Tail(steps), NextIndent)
         IN  IF first[1] = "return" THEN first
             ELSE IF rest[1] = "return" THEN rest
             ELSE <<"yaml", indent \o first[2] \o rest[2]>>

\* Context::gys_to_yaml
GysToYaml(text) ==
    LET lines == Lines(text)
        kept == SelectSeq(lines, LAMBDA line : ~StartsWith(Trim(line), "#"))
        gys == Trim(Join(kept, <<"\n">>))
        bare == TrimMatches(TrimMatches(TrimMatches(gys, "|"), "["), "]")
        steps == Split(bare, "|")
        body == StepsYaml(steps, IF Len(steps) > 1 THEN FirstIndent ELSE <<>>)
    IN  IF ~IsGys(gys) THEN gys
        ELSE IF body[1] = "return" THEN body[2]
        ELSE IF Len(steps) > 1 THEN PipelineHead \o body[2] \o PipelineTail
        ELSE body[2]

\* The arguments a step of the model may have: fused x:1, spaced y: 2, bare i
StepArg == {"fused", "spaced", "bare"}

\* The names of the steps, by their place in the definition
StepName(i) == <<<<"a">>, <<"b">>, <<"c">>, <<"d">>>>[i]

\* The definitions of the model: for every step the kinds of its arguments
Definitions ==
    UNION {[1..n -> UNION {[1..m -> StepArg] : m \in 0..MaxStepArgs}] :
              n \in 1..MaxSteps}

\* The ways the model writes a definition as a text
Layouts ==
    {"spaced pipes", "bare pipes", "outer pipes", "brackets", "comment line",
     "comment at end of step", "comment at end of line", "lines"}

\* The tokens that write an argument
ArgTokens(kind) ==
    CASE kind = "fused" -> << <<"x", ":", "1">> >>
      [] kind = "spaced" -> << <<"y", ":">>, <<"2">> >>
      [] kind = "bare" -> << <<"i">> >>

RECURSIVE StepTokens(_)
StepTokens(args) ==
    IF args = <<>> THEN <<>>
    ELSE ArgTokens(args[1]) \o StepTokens(Tail(args))

Comment == <<"#", " ", "c">>

\* The text of one step: its name and the tokens of its arguments
StepText(i, args, layout) ==
    LET tokens == StepTokens(args)
    IN  CASE layout = "lines" ->
                Join(<<StepName(i)>> \o tokens, <<"\n", " ">>)
          [] layout = "comment at end of step" ->
                Join(<<StepName(i)>> \o tokens, <<" ">>) \o <<" ">> \o Comment
                   \o <<" ">>
          [] layout = "comment at end of line" ->
                StepName(i) \o <<" ">> \o Comment \o <<"\n", " ">>
                   \o Join(tokens, <<" ">>)
          [] OTHER -> Join(<<StepName(i)>> \o tokens, <<" ">>)

\* The shorthand text of a definition in a layout
Shorthand(def, layout) ==
    LET steps == [i \in 1..Len(def) |-> StepText(i, def[i], layout)]
        piped == Join(steps, IF layout = "bare pipes" THEN <<"|">>
                             ELSE <<" ", "|", " ">>)
    IN  CASE layout = "outer pipes" -> <<"|">> \o piped \o <<"|">>
          [] layout = "brackets" -> <<"[">> \o piped \o <<"]">>
          [] layout = "comment line" -> Comment \o <<"\n", "\n", " ">> \o piped
          [] OTHER -> piped

\* No definition in conversion
GysIdle ==
    /\ gysSteps = <<>>
    /\ gysLayout = "none"
    /\ gysText = <<>>
    /\ yaml = <<>>
    /\ gysPc = "unused"
    /\ detected = NoValue
    /\ resource = NoValue

\* A definition of the model, written as a shorthand text
GysInit ==
    /\ gysSteps \in Definitions
    /\ gysLayout \in Layouts
    /\ gysText = Shorthand(gysSteps, gysLayout)
    /\ yaml = <<>>
    /\ gysPc = "text"
    /\ detected = NoValue
    /\ resource = NoValue

\* The call of gys_to_yaml on the text
ToYaml ==
    /\ gysPc = "text"
    /\ yaml' = GysToYaml(gysText)
    /\ gysPc' = "converted"
    /\ UNCHANGED <<gysSteps, gysLayout, gysText, detected, resource>>
    /\ UNCHANGED <<argVars, opVars, ppVars, innerVars, ctVars>>

GysNext == ToYaml

----------------------------------------------------------------------------
(* Context::is_gys and GysResource::new on free texts                       *)

\* A bound: the length of a free text
MaxTextLen == 4

\* The characters of the free texts
TextChars == {"c", ":", " ", "|", "[", "]", "#", "\n"}

\* The free texts of the model
Texts == UNION {[1..n -> TextChars] : n \in 0..MaxTextLen}

RECURSIVE ReplaceAll(_, _, _)
\* str::replace(from, to)
ReplaceAll(s, from, to) ==
    LET at == IndexOf(s, from)
    IN  IF at = 0 THEN s
        ELSE SubSeq(s, 1, at - 1) \o to
                 \o ReplaceAll(SubSeq(s, at + Len(from), Len(s)), from, to)

UnknownId == <<"U", "N", "K", "N", "O", "W", "N">>

\* The docstring a `##` line adds: (line + "    ")[3..].trim_end()
DocLine(line) ==
    LET padded == line \o <<" ", " ", " ", " ">>
    IN  TrimEnd(SubSeq(padded, 4, Len(padded)))

\* The text a line that is no docstring adds: what stands before its first
\* '#', trimmed
CodeLine(line) == Trim(Split(Trim(line), "#")[1])

\* The step of a mutant that leaves ': ' as it is
TrimmedStepUnfused(step) == Join(SplitWhitespace(step), <<" ">>)

\* One step of a GysResource: its elements joined by single spaces, and
\* ': ' turned into ':'
TrimmedStep(step) ==
    ReplaceAll(Join(SplitWhitespace(step), <<" ">>), <<":", " ">>, <<":">>)

\* GysResource::new, without the globals it copies
NewGysResource(definition) ==
    LET all == Trim(ReplaceAll(Trim(ReplaceAll(definition, <<"\r", "\n">>,
                                               <<"\n">>)),
                               <<"\r">>, <<"\n">>))
        tokens == SplitWhitespace(all)
        lines == [i \in 1..Len(Lines(all)) |-> Trim(Lines(all)[i])]
        isDoc(line) == Len(line) >= 2 /\ SubSeq(line, 1, 2) = <<"#", "#">>
        docs == SelectSeq(lines, isDoc)
        code == SelectSeq(lines, LAMBDA line : ~isDoc(line))
        trimmed == ReplaceAll(Join([i \in 1..Len(code) |-> CodeLine(code[i])],
                                   <<" ">>),
                              <<"\n">>, <<" ">>)
        steps == Split(trimmed, "|")
        kept == SelectSeq([i \in 1..Len(steps) |-> Trim(steps[i])],
                          LAMBDA step : step # <<>>)
    IN  [id |-> IF tokens = <<>> THEN UnknownId ELSE tokens[1],
         doc |-> Trim(Join([i \in 1..Len(docs) |-> DocLine(docs[i])],
                           <<"\n">>)),
         steps |-> [i \in 1..Len(kept) |-> TrimmedStep(kept[i])]]

\* A free text, before any call
TextInit ==
    /\ gysSteps = <<>>
    /\ gysLayout = "free text"
    /\ gysText \in Texts
    /\ yaml = <<>>
    /\ gysPc = "text"
    /\ detected = NoValue
    /\ resource = NoValue

\* The call of is_gys on the text
Detect ==
    /\ gysPc = "text"
    /\ detected' = <<"bool", IsGys(gysText)>>
    /\ gysPc' = "detected"
    /\ UNCHANGED <<gysSteps, gysLayout, gysText, yaml, resource>>
    /\ UNCHANGED <<argVars, opVars, ppVars, innerVars, ctVars>>

\* The call of GysResource::new on the text
NewResource ==
    /\ gysPc = "text"
    /\ resource' = <<"GysResource", NewGysResource(gysText)>>
    /\ gysPc' = "resource"
    /\ UNCHANGED <<gysSteps, gysLayout, gysText, yaml, detected>>
    /\ UNCHANGED <<argVars, opVars, ppVars, innerVars, ctVars>>

TextNext == Detect \/ ToYaml \/ NewResource

----------------------------------------------------------------------------
(* The inner operators: utm of tmerc.rs and btmerc.rs, new of laea.rs, and  *)
(* the guards of the fwd and inv kernels                                    *)

InvKey == <<"i", "n", "v">>
EllpsKey == <<"e", "l", "l", "p", "s">>
ZoneKey == <<"z", "o", "n", "e">>
Lat0Key == <<"l", "a", "t", "_", "0">>
Lon0Key == <<"l", "o", "n", "_", "0">>
X0Key == <<"x", "_", "0">>
Y0Key == <<"y", "_", "0">>
K0Key == <<"k", "_", "0">>
Grs80 == <<"G", "R", "S", "8", "0">>

\* UTM_GAMUT
UtmGamut == <<Flag(InvKey), Text(EllpsKey, Some(Grs80)), Natural(ZoneKey, None)>>

\* A parameter the definition or the globals do not hold
Absent == <<"absent">>

\* A map with the entry k: v, or without it when v is Absent
With(m, k, v) == IF v = Absent THEN m ELSE MapInsert(m, k, v)

\* The zone texts of the model: both ends of 1..60, their neighbours, a
\* signed number, texts that are no natural number, a lookup of the globals
ZoneTexts ==
    { <<"0">>, <<"1">>, <<"3", "2">>, <<"6", "0">>, <<"6", "1">>,
      <<"+", "5">>, <<"-", "1">>, <<"x">>, <<>>, <<"^", "z">> }

\* The definitions of the model that call utm or butm: with or without a
\* zone, with inv as a bare flag or as inv:false, with an ellipsoid or a
\* lookup for it that nothing answers, and with a false northing that
\* UTM_GAMUT does not declare
UtmLocalsSet ==
    { With(With(With(With((NameKey :> <<"u", "t", "m">>),
                          ZoneKey, z), InvKey, i), EllpsKey, e), Y0Key, y) :
        z \in ZoneTexts \cup {Absent},
        i \in {Absent, <<>>, FalseText},
        e \in {Absent, <<"i", "n", "t", "l">>, <<"^", "q">>},
        y \in {Absent, <<"1", "0", "0">>} }

\* The globals of the model that utm or butm sees
UtmGlobalsSet ==
    { EmptyMap, (ZoneKey :> <<"3", "3">>), (<<"z">> :> <<"9", "9">>),
      (Y0Key :> <<"5">>) }

\* The billionths that the digits behind a decimal point write
Nano(frac) ==
    LET nine == SubSeq(frac \o <<"0", "0", "0", "0", "0", "0", "0", "0", "0">>,
                       1, 9)
    IN  DigitsValue(nine)

\* The f64 of a parsed number
F64OfDecimal(d) ==
    IF d[3] = NanText THEN <<"NaN", 0, 0>>
    ELSE IF d[3] = InfText THEN <<"inf", d[1], 0>>
    ELSE F64(d[1] * d[2], d[1] * Nano(d[3]))

\* f64::to_radians without the unit change, for a mutant
ToRadiansKeepDegrees(v) == v

\* f64::to_radians: the same number of degrees, as radians, and a number of
\* radians expressed in degrees as that number; zero and NaN are what they
\* were
ToRadians(v) ==
    IF v[1] = "f64" /\ v # F64(0, 0) THEN <<"rad", v[2], v[3]>>
    ELSE IF v[1] = "deg" THEN <<"f64", v[2], v[3]>>
    ELSE v

\* f64::to_degrees: <<"deg", i, n>> is the number of radians i + n / 10^9
\* expressed in degrees; zero and NaN are what they were
ToDegrees(v) ==
    IF v[1] = "f64" /\ v # F64(0, 0) THEN <<"deg", v[2], v[3]>>
    ELSE IF v[1] = "rad" THEN <<"f64", v[2], v[3]>>
    ELSE v

\* The slot array with its first element set from the real parameter k,
\* when the schema declared it
SlotFrom(slots, params, k, angle) ==
    IF k \notin DOMAIN params.bins.real THEN slots
    ELSE LET v == F64OfDecimal(params.bins.real[k])
         IN  [slots EXCEPT ![1] = IF angle THEN ToRadians(v) ELSE v]

\* The fixed slots filled from the typed parameters of the schema: lat_0 and
\* lon_0 in degrees become radians, x_0, y_0 and k_0 are taken as they are
FillSlots(params) ==
    [params EXCEPT !.lat = SlotFrom(@, params, Lat0Key, TRUE),
                   !.lon = SlotFrom(@, params, Lon0Key, TRUE),
                   !.x = SlotFrom(@, params, X0Key, FALSE),
                   !.y = SlotFrom(@, params, Y0Key, FALSE),
                   !.k = SlotFrom(@, params, K0Key, FALSE)]

\* ParsedParameters::natural(key)
NaturalOf(params, k) ==
    IF k \in DOMAIN params.bins.natural THEN Ok(params.bins.natural[k])
    ELSE MissingParam(k)

\* Error::General(message)
General(message) == <<"Err", "General", <<message>>>>

\* The zone range of a mutant that lets zone 0 pass
InZoneFromZero(zone) == 0 <= zone /\ zone < 61

\* (1..61).contains(&zone)
InZone(zone) == 1 <= zone /\ zone < 61

\* The central meridian of a mutant that leaves it in degrees
CentralMeridianDegrees(zone) == ToRadiansKeepDegrees(F64(-183 + 6 * zone, 0))

\* (-183. + 6. * zone as f64).to_radians()
CentralMeridian(zone) == ToRadians(F64(-183 + 6 * zone, 0))

\* The assignments of utm to the fixed slots: k[0], lon[0], lat[0], and
\* x[0] twice
UtmSlots(params, zone) ==
    [params EXCEPT !.k[1] = F64(0, 999600000),
                   !.lon[1] = CentralMeridian(zone),
                   !.lat[1] = F64(0, 0),
                   !.x[1] = F64(500000, 0)]

\* The values of a mutant of precompute that never inserts zb
TmercPrecomputedButZb == {"scaled_radius", "conformal", "tm"}

\* The names of the values that precompute of tmerc.rs inserts
TmercPrecomputed == {"scaled_radius", "conformal", "tm", "zb"}

\* The Op a constructor returns: its kernels, its parameters, and the names
\* of the precomputed values among its parameters
Op(name, params, given) ==
    <<"Op", [kernel |-> name, params |-> params, given |-> given]>>

\* utm, behind ParsedParameters::new: the zone check, the slots, and for
\* tmerc.rs the precomputed values
UtmOf(name, result, parsed) ==
    IF IsErr(result) THEN result
    ELSE LET params == FillSlots(parsed[2])
             zone == NaturalOf(params, ZoneKey)
         IN  IF IsErr(zone) THEN zone
             ELSE IF ~InZone(zone[2])
             THEN General("UTM: 'zone' must be an integer in the interval 1..60")
             ELSE Op(name, UtmSlots(params, zone[2]),
                     IF name = "utm" THEN TmercPrecomputed ELSE {})

\* No inner operator under construction or applied
InnerIdle ==
    /\ kernel = "none"
    /\ innerPc = "unused"
    /\ innerOp = NoValue
    /\ before = <<>>
    /\ operands = <<>>
    /\ applied = NoValue

\* A call of utm (tmerc.rs) or of butm (btmerc.rs) at its first line
UtmInit ==
    /\ kernel \in {"utm", "butm"}
    /\ ppGlobals \in UtmGlobalsSet
    /\ ppLocals \in UtmLocalsSet
    /\ gamut = UtmGamut
    /\ ppPc = "loop"
    /\ ppIdx = 1
    /\ ppBins = NoBins
    /\ ppResult = NoValue
    /\ ppParsed = NoValue
    /\ innerPc = "params"
    /\ innerOp = NoValue
    /\ before = <<>>
    /\ operands = <<>>
    /\ applied = NoValue

\* utm from the return of ParsedParameters::new to its own return
Utm ==
    /\ kernel \in {"utm", "butm"}
    /\ innerPc = "params"
    /\ ppPc = "done"
    /\ innerOp' = UtmOf(kernel, ppResult, ppParsed)
    /\ innerPc' = "returned"
    /\ UNCHANGED <<kernel, before, operands, applied>>
    /\ UNCHANGED <<argVars, opVars, ppVars, gysVars, ctVars>>

UtmNext == ParseParameter \/ Construct \/ Utm

\* GAMUT of laea.rs; a default is written as its decimal text
LaeaGamut ==
    <<Flag(InvKey), Text(EllpsKey, Some(Grs80)),
      Real(Lat0Key, Some(<<"0">>)), Real(Lon0Key, Some(<<"0">>)),
      Real(X0Key, Some(<<"0">>)), Real(Y0Key, Some(<<"0">>))>>

\* The central latitudes of the model, in degrees: the equator and the
\* poles, latitudes a few billionths of a degree off them, latitudes well
\* inside and well outside, not-a-number, infinity, and no number
Lat0Texts ==
    { <<"0">>, <<"5", "2">>, <<"9", "0">>, <<"-", "9", "0">>,
      <<"0", ".", "0", "0", "0", "0", "0", "0", "0", "0", "1">>,
      <<"8", "9", ".", "9", "9", "9", "9", "9", "9", "9", "9", "9">>,
      <<"9", "0", ".", "0", "0", "0", "0", "0", "0", "0", "0", "1">>,
      <<"9", "0", ".", "0", "0", "0", "0", "0", "0", "0", "0", "6">>,
      <<"-", "9", "0", ".", "0", "0", "0", "0", "0", "0", "0", "0", "5">>,
      <<"9", "1">>, <<"-", "9", "5">>, <<"N", "a", "N">>, <<"-", "i", "n", "f">>,
      <<"x">> }

\* The definitions of the model that call laea
LaeaLocalsSet ==
    { With(With(With((NameKey :> <<"l", "a", "e", "a">>),
                     Lat0Key, lat), Lon0Key, lon), InvKey, i) :
        lat \in Lat0Texts \cup {Absent},
        lon \in {Absent, <<"1", "0">>},
        i \in {Absent, <<>>} }

\* The globals of the model that laea sees
LaeaGlobalsSet ==
    { EmptyMap, (Lat0Key :> <<"4", "5">>), (Lat0Key :> <<"1", "0", "0">>) }

RECURSIVE Parameters(_, _)
\* The parameters of a definition, each behind a blank: key:value, or the
\* key alone when it has no value
Parameters(l, keys) ==
    IF keys = <<>> THEN <<>>
    ELSE LET k == Head(keys)
             one == IF k \notin DOMAIN l THEN <<>>
                    ELSE IF l[k] = <<>> THEN <<" ">> \o k
                    ELSE <<" ">> \o k \o <<":">> \o l[k]
         IN  one \o Parameters(l, Tail(keys))

\* parameters.definition: the text that the locals were split from
Definition(l) ==
    l[NameKey] \o Parameters(l, <<InvKey, EllpsKey, Lat0Key, Lon0Key, X0Key, Y0Key>>)

\* FRAC_PI_2, in degrees
HalfPiDegrees == 90

\* The billionths of a degree that are no more than EPS10 = 1e-10 radians:
\* EPS10 is 5.73 billionths of a degree
Eps10NanoDegrees == 5

Abs(n) == IF n < 0 THEN 0 - n ELSE n

\* f64::is_nan
IsNan(v) == v[1] = "NaN"

\* f64::abs
F64Abs(v) == <<v[1], Abs(v[2]), Abs(v[3])>>

\* t > FRAC_PI_2 of a mutant without the tolerance, for t >= 0
BeyondPoleStrict(t) ==
    \/ t[1] = "inf"
    \/ /\ t[1] = "rad"
       /\ t[2] > HalfPiDegrees \/ (t[2] = HalfPiDegrees /\ t[3] > 0)

\* t > FRAC_PI_2 + EPS10, for t >= 0
BeyondPole(t) ==
    \/ t[1] = "inf"
    \/ /\ t[1] = "rad"
       /\ t[2] > HalfPiDegrees \/ (t[2] = HalfPiDegrees /\ t[3] > Eps10NanoDegrees)

\* (t - FRAC_PI_2).abs() < EPS10, for t >= 0
Polar(t) ==
    /\ t[1] = "rad"
    /\ \/ t[2] = HalfPiDegrees /\ t[3] <= Eps10NanoDegrees
       \/ t[2] = HalfPiDegrees - 1 /\ t[3] >= 1000000000 - Eps10NanoDegrees

\* t < EPS10, for t >= 0
BelowEps(t) ==
    \/ t = F64(0, 0)
    \/ t[1] = "rad" /\ t[2] = 0 /\ t[3] <= Eps10NanoDegrees

\* t > 0.0, for t >= 0
Positive(t) == t[1] = "inf" \/ t[2] > 0 \/ t[3] > 0

NorthPolar == <<"n", "o", "r", "t", "h", "_", "p", "o", "l", "a", "r">>
SouthPolar == <<"s", "o", "u", "t", "h", "_", "p", "o", "l", "a", "r">>
Equatoreal == <<"e", "q", "u", "a", "t", "o", "r", "e", "a", "l">>
Oblique == <<"o", "b", "l", "i", "q", "u", "e">>

\* The aspect that new inserts into the booleans: the match over (polar,
\* equatoreal, north), where north is polar && (t > 0.0)
Aspect(t) ==
    LET polar == Polar(t)
        north == polar /\ Positive(t)
        equatoreal == ~polar /\ BelowEps(t)
    IN  IF polar /\ north THEN NorthPolar
        ELSE IF polar THEN SouthPolar
        ELSE IF equatoreal THEN Equatoreal
        ELSE Oblique

\* The names of the values that new of laea.rs precomputes
LaeaPrecomputed == {"xi_0", "q0", "qp", "rq", "d", "authalic"}

\* new of laea.rs, behind ParsedParameters::new: the two checks of the
\* central latitude, the aspect, the precomputed values
LaeaOf(result, parsed, def) ==
    IF IsErr(result) THEN result
    ELSE LET params == FillSlots(parsed[2])
             lat_0 == params.lat[1]
             t == F64Abs(lat_0)
         IN  IF IsNan(lat_0) THEN BadParam(Lat0Key, def)
             ELSE IF BeyondPole(t) THEN BadParam(Lat0Key, def)
             ELSE Op("laea",
                     [params EXCEPT !.bins.boolean = @ \cup {Aspect(t)}],
                     LaeaPrecomputed)

\* A call of new (laea.rs) at its first line
LaeaInit ==
    /\ kernel = "laea"
    /\ ppGlobals \in LaeaGlobalsSet
    /\ ppLocals \in LaeaLocalsSet
    /\ gamut = LaeaGamut
    /\ ppPc = "loop"
    /\ ppIdx = 1
    /\ ppBins = NoBins
    /\ ppResult = NoValue
    /\ ppParsed = NoValue
    /\ innerPc = "params"
    /\ innerOp = NoValue
    /\ before = <<>>
    /\ operands = <<>>
    /\ applied = NoValue

\* new (laea.rs) from the return of ParsedParameters::new to its own return
Laea ==
    /\ kernel = "laea"
    /\ innerPc = "params"
    /\ ppPc = "done"
    /\ innerOp' = LaeaOf(ppResult, ppParsed, Definition(ppLocals))
    /\ innerPc' = "returned"
    /\ UNCHANGED <<kernel, before, operands, applied>>
    /\ UNCHANGED <<argVars, opVars, ppVars, gysVars, ctVars>>

LaeaNext == ParseParameter \/ Construct \/ Laea

\* GAMUT of tmerc.rs; a default is written as its decimal text
TmercGamut ==
    <<Flag(InvKey), Text(EllpsKey, Some(Grs80)),
      Real(Lat0Key, Some(<<"0">>)), Real(Lon0Key, Some(<<"0">>)),
      Real(X0Key, Some(<<"0">>)), Real(Y0Key, Some(<<"0">>)),
      Real(K0Key, Some(<<"1">>))>>

\* The definitions of the model that call tmerc
TmercLocalsSet ==
    { With(With(With((NameKey :> <<"t", "m", "e", "r", "c">>),
                     Lat0Key, lat), K0Key, k), InvKey, i) :
        lat \in {Absent, <<"5", "2">>, <<"N", "a", "N">>, <<"x">>},
        k \in {Absent, <<"0", ".", "9", "9", "9", "6">>, <<"k">>},
        i \in {Absent, <<>>} }

\* precompute of tmerc.rs: the Op with scaled_radius, conformal, tm and zb
\* among its parameters
Precompute(op) == <<"Op", [op[2] EXCEPT !.given = @ \cup TmercPrecomputed]>>

\* new of tmerc.rs: Op::plain, which builds the ParsedParameters of GAMUT
\* and returns its error, and precompute
TmercOf(result, parsed) ==
    IF IsErr(result) THEN result
    ELSE Precompute(Op("tmerc", FillSlots(parsed[2]), {}))

\* A call of new (tmerc.rs) at its first line
TmercInit ==
    /\ kernel = "tmerc"
    /\ ppGlobals \in LaeaGlobalsSet
    /\ ppLocals \in TmercLocalsSet
    /\ gamut = TmercGamut
    /\ ppPc = "loop"
    /\ ppIdx = 1
    /\ ppBins = NoBins
    /\ ppResult = NoValue
    /\ ppParsed = NoValue
    /\ innerPc = "params"
    /\ innerOp = NoValue
    /\ before = <<>>
    /\ operands = <<>>
    /\ applied = NoValue

\* new (tmerc.rs) from the return of ParsedParameters::new to its own return
Tmerc ==
    /\ kernel = "tmerc"
    /\ innerPc = "params"
    /\ ppPc = "done"
    /\ innerOp' = TmercOf(ppResult, ppParsed)
    /\ innerPc' = "returned"
    /\ UNCHANGED <<kernel, before, operands, applied>>
    /\ UNCHANGED <<argVars, opVars, ppVars, gysVars, ctVars>>

\* The constructors of tmerc.rs, btmerc.rs and laea.rs
NewNext == ParseParameter \/ Construct \/ Utm \/ Laea \/ Tmerc

\* A bound: the number of coordinates of a batch
MaxOperands == 2

\* A slot of a coordinate, a f64 written as what it is the value of:
\* <<"angle", "", v, 0, 0, 0, 0>> is the angle of v degrees, in radians;
\* <<"metres", "", v, 0, 0, 0, 0>> is v metres; <<"E", p, dl, phi, ref, x, k>>
\* is x metres plus k ten-thousandths of the easting that the projection p
\* with the latitude of reference ref gives the point of latitude phi, dl
\* degrees east of the central meridian, and "N" its northing; "lonOf" and
\* "latOf" are the angles that the inverse of p gives the point dx, dy metres
\* from the false origin
Angle(v) == <<"angle", "", v, 0, 0, 0, 0>>

Metres(v) == <<"metres", "", v, 0, 0, 0, 0>>

\* f64::NAN
NanSlot == <<"NaN", "", 0, 0, 0, 0, 0>>

\* x_0 + the easting: on the central meridian it is x_0
Easting(p, dl, phi, ref, x, k) ==
    IF dl = 0 THEN Metres(x) ELSE <<"E", p, dl, phi, ref, x, k>>

\* y_0 + the northing, reckoned from the latitude of reference: there, on
\* the central meridian, it is y_0, and all along the equator when the
\* equator is the latitude of reference
Northing(p, dl, phi, ref, y, k) ==
    IF phi = ref /\ (dl = 0 \/ ref = 0) THEN Metres(y)
    ELSE <<"N", p, dl, phi, ref, y, k>>

\* The whole degrees, or metres, of a parameter
Whole(v) == v[2]

\* k_0 in ten-thousandths
TenThousandths(v) == v[2] * 10000 + (v[3] \div 100000)

\* The geographical coordinates of the model: longitude, latitude, height
\* and time. One is 90 degrees east of the meridian of 9 degrees, two have a
\* NaN in slot 0 or 1, one has a NaN in slot 3
GeoCoords ==
    { <<Angle(0), Angle(0), Metres(0), Metres(0)>>,
      <<Angle(9), Angle(52), Metres(100), Metres(2020)>>,
      <<Angle(12), Angle(55), Metres(100), NanSlot>>,
      <<Angle(99), Angle(0), Metres(0), Metres(2020)>>,
      <<NanSlot, Angle(55), Metres(100), Metres(2020)>>,
      <<Angle(12), NanSlot, Metres(0), Metres(0)>> }

\* Metres from the false origin that are beyond every kernel's domain:
\* 2.623395162778 scaled radii, and two radii rq
FarMetres == 20000000

\* The projected coordinates of the model: the false origin of the Op, a
\* point far east of it, and a NaN
PlaneCoords(op) ==
    LET x_0 == Whole(op.params.x[1])
        y_0 == Whole(op.params.y[1])
    IN  { <<Metres(x_0), Metres(y_0), Metres(100), Metres(2020)>>,
          <<Metres(x_0 + FarMetres), Metres(y_0), Metres(0), NanSlot>>,
          <<NanSlot, Metres(y_0), Metres(100), Metres(2020)>> }

\* The batches of the model for an Op: of geographical coordinates, or of
\* projected ones
Batches(op) ==
    UNION { [1..n -> GeoCoords] \cup [1..n -> PlaneCoords(op)] :
              n \in 0..MaxOperands }

\* The parameters of an Op of the model whose booleans are flags
KernelParams(name, flags) ==
    [name |-> name,
     lat |-> ZeroSlots, lon |-> ZeroSlots, x |-> ZeroSlots,
     y |-> ZeroSlots, k |-> ZeroSlots,
     bins |-> [NoBins EXCEPT !.boolean = flags],
     ignored |-> {}]

\* The same with lat_0 and lon_0 in degrees, x_0, y_0 and k_0 in the slots
Centred(params, lat_0, lon_0, x_0, y_0, k_0) ==
    [params EXCEPT !.lat[1] = <<"rad", lat_0, 0>>,
                   !.lon[1] = <<"rad", lon_0, 0>>,
                   !.x[1] = F64(x_0, 0),
                   !.y[1] = F64(y_0, 0),
                   !.k[1] = k_0]

\* The false origins and scales of the model
Origins ==
    { <<0, 0, F64(1, 0)>>, <<500000, 10000000, F64(0, 999600000)>> }

\* The Ops of the model that a kernel is applied to. With every precomputed
\* value: of tmerc and of btmerc about the latitudes 0 and 52, of laea about
\* 0, 52 and either pole, its aspect as new sets it. And of tmerc and of laea
\* with some precomputed value missing
KernelOps ==
    { Op(name, Centred(KernelParams(<<"t", "m", "e", "r", "c">>, {}),
                       lat_0, lon_0, o[1], o[2], o[3]),
         IF name = "tmerc" THEN TmercPrecomputed ELSE {}) :
        name \in {"tmerc", "btmerc"}, lat_0 \in {0, 52}, lon_0 \in {0, 9},
        o \in Origins }
    \cup
    { Op("laea", Centred(KernelParams(<<"l", "a", "e", "a">>,
                                      {Aspect(<<"rad", Abs(lat_0), 0>>)}),
                         lat_0, lon_0, o[1], o[2], F64(0, 0)),
         LaeaPrecomputed) :
        lat_0 \in {0, 52, 90, -90}, lon_0 \in {0, 9}, o \in Origins }
    \cup
    { Op("tmerc", KernelParams(<<"t", "m", "e", "r", "c">>, {}), g) :
        g \in (SUBSET TmercPrecomputed) \ {TmercPrecomputed} }
    \cup
    { Op("laea", Centred(KernelParams(<<"l", "a", "e", "a">>, {Aspect(<<"rad", lat_0, 0>>)}),
                         lat_0, 0, 0, 0, F64(0, 0)), g) :
        lat_0 \in {52, 90}, g \in (SUBSET LaeaPrecomputed) \ {LaeaPrecomputed} }

\* The values behind the let-else guards of a kernel, in their order
Guards(name, direction) ==
    CASE name = "tmerc" -> <<"conformal", "tm", "scaled_radius", "zb">>
      [] name = "btmerc" -> <<>>
      [] name = "laea" /\ direction = "fwd" -> <<"xi_0", "qp", "rq", "d">>
      [] name = "laea" /\ direction = "inv" -> <<"xi_0", "rq", "d", "authalic">>

\* The guards of a mutant whose last guard is left out
GuardsPassedButLast(op, direction) ==
    LET g == Guards(op.kernel, direction)
    IN  \A i \in 1..(Len(g) - 1) : g[i] \in op.given

\* Every let-else guard of the kernel finds its value
GuardsPassed(op, direction) ==
    LET g == Guards(op.kernel, direction)
    IN  \A i \in 1..Len(g) : g[i] \in op.given

\* ParsedParameters::boolean(key)
BooleanOf(params, k) == k \in params.bins.boolean

\* lon.abs() > 2.623395162778 in fwd of tmerc.rs, for the angles of the
\* model: the point is within 8 degrees of a point of the equator that is
\* 90 degrees from the central meridian
BeyondGamut(dl, phi) == Abs(dl) >= 82 /\ Abs(dl) <= 98 /\ Abs(phi) <= 8

\* The slots 0 and 1 of the coordinate are those of the point of latitude
\* phi, dl degrees from the central meridian: <<"point", dl, phi>>. Or of a
\* point far from the false origin, <<"far", dx, dy>>, or of none of these
PlanePoint(p, ref, x_0, y_0, k, coord) ==
    LET e == coord[1]
        n == coord[2]
        isE == e = <<"E", p, e[3], e[4], ref, x_0, k>>
        isN == n = <<"N", p, n[3], n[4], ref, y_0, k>>
    IN  IF e[1] = "metres" /\ n[1] = "metres"
        THEN IF e[3] = x_0 /\ n[3] = y_0 THEN <<"point", 0, ref>>
             ELSE IF Abs(e[3] - x_0) >= FarMetres
             THEN <<"far", e[3] - x_0, n[3] - y_0>>
             ELSE <<"other", 0, 0>>
        ELSE IF e = Metres(x_0) /\ isN /\ n[3] = 0 THEN <<"point", 0, n[4]>>
        ELSE IF isE /\ n = Metres(y_0) /\ e[4] = ref /\ ref = 0
        THEN <<"point", e[3], e[4]>>
        ELSE IF isE /\ isN /\ e[3] = n[3] /\ e[4] = n[4]
        THEN <<"point", e[3], e[4]>>
        ELSE <<"other", 0, 0>>

\* The coordinate with every slot written, of a mutant that clears the
\* height and the time
WrittenThrough(coord, s0, s1) == <<s0, s1, Metres(0), Metres(0)>>

\* The coordinate with its slots 0 and 1 written
Written(coord, s0, s1) == <<s0, s1, coord[3], coord[4]>>

\* warn!(..); continue
Skipped(coord) == <<coord, 0>>

\* coord[0] = f64::NAN; coord[1] = f64::NAN; continue
Rejected(coord) == <<Written(coord, NanSlot, NanSlot), 0>>

\* The rest of a pass of the loop: the slots 0 and 1 written, successes += 1
Counted(coord, s0, s1) == <<Written(coord, s0, s1), 1>>

\* Arithmetic on a NaN in slot 0 or 1 gives NaN in both, and no comparison
\* with a NaN holds: the pass runs to its end
NanIn(coord) == coord[1] = NanSlot \/ coord[2] = NanSlot

\* normalize_angle_symmetric, in degrees
NormalizeAngleSymmetric(v) ==
    IF v > 180 THEN v - 360 ELSE IF v < -180 THEN v + 360 ELSE v

\* One pass of the loop of fwd of tmerc.rs
TmercFwd(op, coord) ==
    LET lat_0 == Whole(op.params.lat[1])
        lon_0 == Whole(op.params.lon[1])
        x_0 == Whole(op.params.x[1])
        y_0 == Whole(op.params.y[1])
        k == TenThousandths(op.params.k[1])
        lat == coord[2][3] + lat_0
        lon == coord[1][3] - lon_0
    IN  IF NanIn(coord) THEN Counted(coord, NanSlot, NanSlot)
        ELSE IF BeyondGamut(lon, lat) THEN Rejected(coord)
        ELSE Counted(coord, Easting("tmerc", lon, lat, lat_0, x_0, k),
                            Northing("tmerc", lon, lat, lat_0, y_0, k))

\* The latitude that inv of tmerc.rs returns for the conformal latitude of
\* phi: latitude_conformal_to_geographic, and nothing else
TmercLatitude(phi, lat_0) == phi

\* One pass of the loop of inv of tmerc.rs
TmercInv(op, coord) ==
    LET lat_0 == Whole(op.params.lat[1])
        lon_0 == Whole(op.params.lon[1])
        x_0 == Whole(op.params.x[1])
        y_0 == Whole(op.params.y[1])
        k == TenThousandths(op.params.k[1])
        at == PlanePoint("tmerc", lat_0, x_0, y_0, k, coord)
    IN  IF NanIn(coord) THEN Counted(coord, NanSlot, NanSlot)
        ELSE IF at[1] = "far" THEN Rejected(coord)
        ELSE IF at[1] = "point"
        THEN Counted(coord, Angle(NormalizeAngleSymmetric(at[2] + lon_0)),
                            Angle(TmercLatitude(at[3], lat_0)))
        ELSE Counted(coord, <<"lonOf", "tmerc", at[2], at[3], 0, 0, 0>>,
                            <<"latOf", "tmerc", at[2], at[3], 0, 0, 0>>)

\* One pass of the loop of fwd of btmerc.rs
BtmercFwd(op, coord) ==
    LET lat_0 == Whole(op.params.lat[1])
        lon_0 == Whole(op.params.lon[1])
        x_0 == Whole(op.params.x[1])
        y_0 == Whole(op.params.y[1])
        k == TenThousandths(op.params.k[1])
        lat == coord[2][3] + lat_0
        dlon == coord[1][3] - lon_0
    IN  IF NanIn(coord) THEN Counted(coord, NanSlot, NanSlot)
        ELSE Counted(coord, Easting("btmerc", dlon, lat, 0, x_0, k),
                            Northing("btmerc", dlon, lat, 0, y_0, k))

\* One pass of the loop of inv of btmerc.rs
BtmercInv(op, coord) ==
    LET lat_0 == Whole(op.params.lat[1])
        lon_0 == Whole(op.params.lon[1])
        x_0 == Whole(op.params.x[1])
        y_0 == Whole(op.params.y[1])
        k == TenThousandths(op.params.k[1])
        at == PlanePoint("btmerc", 0, x_0, y_0, k, coord)
    IN  IF NanIn(coord) THEN Counted(coord, NanSlot, NanSlot)
        ELSE IF at[1] = "point"
        THEN Counted(coord, Angle(lon_0 + at[2]), Angle(lat_0 + at[3]))
        ELSE Counted(coord, <<"lonOf", "btmerc", at[2], at[3], 0, 0, 0>>,
                            <<"latOf", "btmerc", at[2], at[3], 0, 0, 0>>)

\* The aspect of a laea Op is one of the polar ones
IsPolar(op) ==
    BooleanOf(op.params, NorthPolar) \/ BooleanOf(op.params, SouthPolar)

\* The projection of a laea Op and its latitude of reference: of the polar
\* formulas the pole that sign stands for, of the others lat_0
LaeaProjection(op) ==
    IF BooleanOf(op.params, NorthPolar) THEN <<"laea north", 90>>
    ELSE IF BooleanOf(op.params, SouthPolar) THEN <<"laea south", -90>>
    ELSE <<"laea", Whole(op.params.lat[1])>>

\* One pass of either loop of fwd of laea.rs
LaeaFwd(op, coord) ==
    LET lon_0 == Whole(op.params.lon[1])
        x_0 == Whole(op.params.x[1])
        y_0 == Whole(op.params.y[1])
        p == LaeaProjection(op)
        lat == coord[2][3]
        lon == coord[1][3] - lon_0
    IN  IF NanIn(coord) THEN Counted(coord, NanSlot, NanSlot)
        ELSE Counted(coord, Easting(p[1], lon, lat, p[2], x_0, 10000),
                            Northing(p[1], lon, lat, p[2], y_0, 10000))

\* The longitude that inv of laea.rs writes when rho < EPS10: 0.0
AtOrigin(lon_0) == Angle(0)

\* One pass of either loop of inv of laea.rs
LaeaInv(op, coord) ==
    LET lat_0 == Whole(op.params.lat[1])
        lon_0 == Whole(op.params.lon[1])
        x_0 == Whole(op.params.x[1])
        y_0 == Whole(op.params.y[1])
        p == LaeaProjection(op)
        at == PlanePoint(p[1], p[2], x_0, y_0, 10000, coord)
        unknown == Counted(coord, <<"lonOf", p[1], at[2], at[3], 0, 0, 0>>,
                                  <<"latOf", p[1], at[2], at[3], 0, 0, 0>>)
    IN  IF NanIn(coord) THEN Counted(coord, NanSlot, NanSlot)
        ELSE IF IsPolar(op)
        THEN IF at[1] = "point"
             THEN Counted(coord, Angle(lon_0 + at[2]),
                                 <<"latOf", p[1], at[2], at[3], 0, 0, 0>>)
             ELSE unknown
        ELSE IF at = <<"point", 0, lat_0>>
        THEN Counted(coord, AtOrigin(lon_0), Angle(lat_0))
        ELSE IF at[1] = "far" THEN Skipped(coord)
        ELSE IF at[1] = "point"
        THEN Counted(coord, Angle(at[2] + lon_0), Angle(at[3]))
        ELSE unknown

\* One pass of the loop of a kernel over the operands: the coordinate as
\* the kernel leaves it, and what it adds to successes
KernelStep(op, direction, coord) ==
    CASE op.kernel = "tmerc" /\ direction = "fwd" -> TmercFwd(op, coord)
      [] op.kernel = "tmerc" /\ direction = "inv" -> TmercInv(op, coord)
      [] op.kernel = "btmerc" /\ direction = "fwd" -> BtmercFwd(op, coord)
      [] op.kernel = "btmerc" /\ direction = "inv" -> BtmercInv(op, coord)
      [] op.kernel = "laea" /\ direction = "fwd" -> LaeaFwd(op, coord)
      [] op.kernel = "laea" /\ direction = "inv" -> LaeaInv(op, coord)

RECURSIVE Successes(_, _, _)
\* successes, behind the loop over the operands
Successes(op, direction, batch) ==
    IF batch = <<>> THEN 0
    ELSE KernelStep(op, direction, Head(batch))[2]
         + Successes(op, direction, Tail(batch))

\* A kernel: the operands as it leaves them and its return
Kernel(op, direction, batch) ==
    IF ~GuardsPassed(op, direction) THEN <<batch, Ok(0)>>
    ELSE <<[i \in 1..Len(batch) |-> KernelStep(op, direction, batch[i])[1]],
           Ok(Successes(op, direction, batch))>>

\* The slots 0 and 1 of every coordinate are angles, or NaN
Geographical(batch) ==
    \A i \in 1..Len(batch) :
        /\ batch[i][1][1] \in {"angle", "NaN"}
        /\ batch[i][2][1] \in {"angle", "NaN"}

\* An Op of the model and a batch, before a kernel is applied
KernelInit ==
    /\ innerOp \in KernelOps
    /\ kernel = innerOp[2].kernel
    /\ operands \in Batches(innerOp[2])
    /\ before = operands
    /\ innerPc = "built"
    /\ applied = NoValue

\* fwd of tmerc.rs, btmerc.rs or laea.rs on geographical operands
Fwd ==
    /\ innerPc = "built"
    /\ Geographical(operands)
    /\ operands' = Kernel(innerOp[2], "fwd", operands)[1]
    /\ applied' = Kernel(innerOp[2], "fwd", operands)[2]
    /\ innerPc' = "fwd"
    /\ UNCHANGED <<kernel, innerOp, before>>
    /\ UNCHANGED <<argVars, opVars, ppVars, gysVars, ctVars>>

\* inv of tmerc.rs, btmerc.rs or laea.rs on projected operands: those
\* given, or those that fwd has left
Inv ==
    /\ innerPc \in {"built", "fwd"}
    /\ operands # <<>> => ~Geographical(before) \/ innerPc = "fwd"
    /\ innerPc = "fwd" => GuardsPassed(innerOp[2], "fwd")
    /\ operands' = Kernel(innerOp[2], "inv", operands)[1]
    /\ applied' = Kernel(innerOp[2], "inv", operands)[2]
    /\ innerPc' = IF innerPc = "built" THEN "inv" ELSE "fwd inv"
    /\ UNCHANGED <<kernel, innerOp, before>>
    /\ UNCHANGED <<argVars, opVars, ppVars, gysVars, ctVars>>

KernelNext == Fwd \/ Inv

----------------------------------------------------------------------------
(* CoordinateTuple: its constructors and conversions, dms_to_dd, dm_to_dd   *)

\* A bound: the number of calls in a row on one CoordinateTuple, the
\* constructor included
MaxCtCalls == 3

\* The numbers of the model that a CoordinateTuple is built from
CtNumbers == {F64(0, 0), F64(12, 0), F64(-55, -500000000), <<"NaN", 0, 0>>}

\* CoordinateTuple::raw
CtRaw(first, second, third, fourth) == <<first, second, third, fourth>>

\* The conversion of a mutant that converts every element
CtToRadiansAll(c) ==
    <<ToRadians(c[1]), ToRadians(c[2]), ToRadians(c[3]), ToRadians(c[4])>>

\* CoordinateTuple::to_radians
CtToRadians(c) == <<ToRadians(c[1]), ToRadians(c[2]), c[3], c[4]>>

\* CoordinateTuple::to_degrees
CtToDegrees(c) == <<ToDegrees(c[1]), ToDegrees(c[2]), c[3], c[4]>>

\* CoordinateTuple::gis
CtGis(longitude, latitude, height, time) ==
    CtToRadians(<<longitude, latitude, height, time>>)

\* The constructor of a mutant that keeps the order of its arguments
CtGeoLatFirst(latitude, longitude, height, time) ==
    CtToRadians(<<latitude, longitude, height, time>>)

\* CoordinateTuple::geo
CtGeo(latitude, longitude, height, time) ==
    CtToRadians(<<longitude, latitude, height, time>>)

\* No CoordinateTuple and no angle in degrees, minutes and seconds
CtIdle ==
    /\ ctIn = <<>>
    /\ ctPc = <<>>
    /\ ctOut = NoValue

\* A latitude, a longitude, a height and a time, before any call
CtInit ==
    /\ ctIn \in [{"lat", "lon", "h", "t"} -> CtNumbers]
    /\ ctPc = <<>>
    /\ ctOut = NoValue

\* CoordinateTuple::geo(lat, lon, h, t)
Geo ==
    /\ ctPc = <<>>
    /\ ctOut' = CtGeo(ctIn.lat, ctIn.lon, ctIn.h, ctIn.t)
    /\ ctPc' = <<"geo">>
    /\ UNCHANGED ctIn
    /\ UNCHANGED <<argVars, opVars, ppVars, gysVars, innerVars>>

\* CoordinateTuple::gis(lon, lat, h, t)
Gis ==
    /\ ctPc = <<>>
    /\ ctOut' = CtGis(ctIn.lon, ctIn.lat, ctIn.h, ctIn.t)
    /\ ctPc' = <<"gis">>
    /\ UNCHANGED ctIn
    /\ UNCHANGED <<argVars, opVars, ppVars, gysVars, innerVars>>

\* CoordinateTuple::raw(lon, lat, h, t)
Raw ==
    /\ ctPc = <<>>
    /\ ctOut' = CtRaw(ctIn.lon, ctIn.lat, ctIn.h, ctIn.t)
    /\ ctPc' = <<"raw">>
    /\ UNCHANGED ctIn
    /\ UNCHANGED <<argVars, opVars, ppVars, gysVars, innerVars>>

\* to_radians on the tuple, when none of its angles is in radians already
PutToRadians ==
    /\ ctPc # <<>>
    /\ Len(ctPc) < MaxCtCalls
    /\ ctOut[1][1] # "rad" /\ ctOut[2][1] # "rad"
    /\ ctOut' = CtToRadians(ctOut)
    /\ ctPc' = Append(ctPc, "to_radians")
    /\ UNCHANGED ctIn
    /\ UNCHANGED <<argVars, opVars, ppVars, gysVars, innerVars>>

\* to_degrees on the tuple, when none of its elements is in degrees already
PutToDegrees ==
    /\ ctPc # <<>>
    /\ Len(ctPc) < MaxCtCalls
    /\ ctOut[1][1] # "deg" /\ ctOut[2][1] # "deg"
    /\ ctOut' = CtToDegrees(ctOut)
    /\ ctPc' = Append(ctPc, "to_degrees")
    /\ UNCHANGED ctIn
    /\ UNCHANGED <<argVars, opVars, ppVars, gysVars, innerVars>>

CtNext == Geo \/ Gis \/ Raw \/ PutToRadians \/ PutToDegrees

\* i32::MIN
MinI32 == (0 - 2147483647) - 1

\* The degrees, minutes and seconds of the model: degrees of either sign,
\* zero degrees, the least i32; whole minutes; whole seconds
DmsSet ==
    [d : {MinI32, -55, -1, 0, 1, 55}, m : {0, 30, 59}, s : {0, 36, 59}]

\* i32::abs: of i32::MIN a panic in a build with overflow checks, and
\* i32::MIN in a build without them
I32Abs(d, build) ==
    IF d = MinI32
    THEN IF build = "debug" THEN <<"panic">> ELSE Ok(d)
    ELSE Ok(IF d < 0 THEN 0 - d ELSE d)

\* i32::signum
Signum(d) == IF d < 0 THEN -1 ELSE IF d = 0 THEN 0 ELSE 1

\* sign * (whole + seconds / 3600.), as <<"f64", sign, whole, seconds>>: the
\* product is left unevaluated, the seconds are seconds of arc
Dd(sign, whole, seconds) == <<"f64", sign, whole, seconds>>

\* dms_to_dd(d, m, s): d.signum() * (d.abs() + (m + s / 60.) / 60.)
DmsToDd(d, m, s, build) ==
    IF I32Abs(d, build) = <<"panic">> THEN <<"panic", 0, 0, 0>>
    ELSE Dd(Signum(d), I32Abs(d, build)[2], 60 * m + s)

\* dm_to_dd(d, m): d.signum() * (d.abs() + m / 60.), the minutes given in
\* seconds of arc
DmToDd(d, seconds, build) ==
    IF I32Abs(d, build) = <<"panic">> THEN <<"panic", 0, 0, 0>>
    ELSE Dd(Signum(d), I32Abs(d, build)[2], seconds)

\* Degrees, minutes and seconds, before any call
DmsInit ==
    /\ ctIn \in DmsSet
    /\ ctPc = <<>>
    /\ ctOut = NoValue

\* CoordinateTuple::dms_to_dd(d, m, s), in either build
CallDmsToDd ==
    /\ ctPc = <<>>
    /\ \E build \in {"debug", "release"} :
           ctOut' = DmsToDd(ctIn.d, ctIn.m, ctIn.s, build)
    /\ ctPc' = <<"dms_to_dd">>
    /\ UNCHANGED ctIn
    /\ UNCHANGED <<argVars, opVars, ppVars, gysVars, innerVars>>

\* CoordinateTuple::dm_to_dd(d, m + s / 60.), in either build
CallDmToDd ==
    /\ ctPc = <<>>
    /\ \E build \in {"debug", "release"} :
           ctOut' = DmToDd(ctIn.d, 60 * ctIn.m + ctIn.s, build)
    /\ ctPc' = <<"dm_to_dd">>
    /\ UNCHANGED ctIn
    /\ UNCHANGED <<argVars, opVars, ppVars, gysVars, innerVars>>

DmsNext == CallDmsToDd \/ CallDmToDd

----------------------------------------------------------------------------
(* Specifications                                                           *)

\* One value() call on a GysArgs of at most MaxArgs entries
ArgsSpecInit == ArgsInit(MaxArgs, 1) /\ OpIdle /\ PpIdle /\ GysIdle /\ InnerIdle /\ CtIdle

ArgsSpec == ArgsSpecInit /\ [][ArgsNext]_vars

\* Up to MaxCalls value() calls on a GysArgs of at most MaxRepeatArgs entries
RepeatSpecInit ==
    ArgsInit(MaxRepeatArgs, MaxCalls) /\ OpIdle /\ PpIdle /\ GysIdle /\ InnerIdle /\ CtIdle

RepeatSpec == RepeatSpecInit /\ [][ArgsNext]_vars

OpSpecInit == OpInit /\ ArgsIdle /\ PpIdle /\ GysIdle /\ InnerIdle /\ CtIdle

\* An OperatorArgs built with insert and append, then read with value calls
OpSpec == OpSpecInit /\ [][OpNext]_vars

PpSpecInit == PpInit /\ ArgsIdle /\ OpIdle /\ GysIdle /\ InnerIdle /\ CtIdle

\* ParsedParameters::new on every gamut, locals and globals of the model
PpSpec == PpSpecInit /\ [][PpNext]_vars

FlagSpecInit == FlagInit /\ OpIdle /\ PpIdle /\ GysIdle /\ InnerIdle /\ CtIdle

\* GysArgs::flag on every globals and locals of the model
FlagSpec == FlagSpecInit /\ [][FlagNext]_vars

TextSpecInit == TextInit /\ ArgsIdle /\ OpIdle /\ PpIdle /\ InnerIdle /\ CtIdle

\* is_gys, gys_to_yaml and GysResource::new on every free text of the model
TextSpec == TextSpecInit /\ [][TextNext]_vars

GysSpecInit == GysInit /\ ArgsIdle /\ OpIdle /\ PpIdle /\ InnerIdle /\ CtIdle

\* gys_to_yaml on every definition of the model in every layout
GysSpec == GysSpecInit /\ [][GysNext]_vars

UtmSpecInit == UtmInit /\ ArgsIdle /\ OpIdle /\ GysIdle /\ CtIdle

\* utm and butm on every definition and globals of the model
UtmSpec == UtmSpecInit /\ [][UtmNext]_vars

LaeaSpecInit == LaeaInit /\ ArgsIdle /\ OpIdle /\ GysIdle /\ CtIdle

\* new of laea.rs on every definition and globals of the model
LaeaSpec == LaeaSpecInit /\ [][LaeaNext]_vars

NewSpecInit ==
    (UtmInit \/ LaeaInit \/ TmercInit) /\ ArgsIdle /\ OpIdle /\ GysIdle /\ CtIdle

\* utm, butm, new of laea.rs and new of tmerc.rs on every definition and
\* globals of the model
NewSpec == NewSpecInit /\ [][NewNext]_vars

KernelSpecInit == KernelInit /\ ArgsIdle /\ OpIdle /\ PpIdle /\ GysIdle /\ CtIdle

\* fwd and inv of tmerc.rs and laea.rs on every Op and batch of the model
KernelSpec == KernelSpecInit /\ [][KernelNext]_vars

CtSpecInit == CtInit /\ ArgsIdle /\ OpIdle /\ PpIdle /\ GysIdle /\ InnerIdle

\* The constructors and conversions of CoordinateTuple on every latitude,
\* longitude, height and time of the model
CtSpec == CtSpecInit /\ [][CtNext]_vars

DmsSpecInit == DmsInit /\ ArgsIdle /\ OpIdle /\ PpIdle /\ GysIdle /\ InnerIdle

\* dms_to_dd and dm_to_dd on every angle of the model
DmsSpec == DmsSpecInit /\ [][DmsNext]_vars

----------------------------------------------------------------------------
(* Properties of Context::gys_to_yaml                                       *)

RECURSIVE SplitAt(_, _)
\* The pieces of a text between the occurrences of a separator
SplitAt(s, sep) ==
    LET at == IndexOf(s, sep)
    IN  IF at = 0 THEN <<s>>
        ELSE <<SubSeq(s, 1, at - 1)>>
                 \o SplitAt(SubSeq(s, at + Len(sep), Len(s)), sep)

\* The key and the value of a `key: value` entry of a block-form step
BlockPair(entry) ==
    LET at == IndexOf(entry, <<":", " ">>)
    IN  IF at = 0 THEN <<entry, <<>>>>
        ELSE <<SubSeq(entry, 1, at - 1), SubSeq(entry, at + 2, Len(entry))>>

\* The name and the ordered key/value pairs of a block-form step
\* `name: {key: value, ...}`
BlockStep(text) ==
    LET t == Trim(text)
        open == IndexOf(t, <<":", " ", "{">>)
        inner == SubSeq(t, open + 3, Len(t) - 1)
        entries == IF inner = <<>> THEN <<>> ELSE SplitAt(inner, <<",", " ">>)
    IN  IF open = 0 \/ ~EndsWith(t, "}") THEN <<"unreadable", t>>
        ELSE <<SubSeq(t, 1, open - 1),
               [i \in 1..Len(entries) |-> BlockPair(entries[i])]>>

\* The steps of a block-form text: those of its `steps: [...]` list, or the
\* one step the text is
BlockSteps(text) ==
    LET head == IndexOf(text, <<"s", "t", "e", "p", "s", ":", " ", "[">>)
        inner == SubSeq(text, head + 8, Len(text) - Len(PipelineTail))
        items == SplitAt(inner, <<",", "\n">>)
    IN  IF head = 0 THEN <<BlockStep(text)>>
        ELSE [i \in 1..Len(items) |-> BlockStep(items[i])]

\* The key and the value an argument of the model is written for
ArgPair(kind) ==
    CASE kind = "fused" -> << <<"x">>, <<"1">> >>
      [] kind = "spaced" -> << <<"y">>, <<"2">> >>
      [] kind = "bare" -> << <<"i">>, <<"t", "r", "u", "e">> >>

\* The steps a definition of the model is written for
WrittenSteps(def) ==
    [i \in 1..Len(def) |->
        <<StepName(i), [j \in 1..Len(def[i]) |-> ArgPair(def[i][j])]>>]

\* C1: the block-form text that gys_to_yaml returns for a shorthand text has
\* the steps of the shorthand in their order, each with its operator name
\* and its ordered key/value pairs, a fused `key:value` and a spaced
\* `key: value` read alike, a bare `key` read as `key: true`, and the
\* comments, each from its `#` to the end of its line, removed.
C1_SameSteps ==
    gysPc = "converted" => BlockSteps(yaml) = WrittenSteps(gysSteps)

\* C1 where no comment is followed, on the lines below it, by further
\* tokens of its step: the steps, names and pairs are the written ones.
C1_SameStepsCommentLast ==
    (gysPc = "converted" /\ gysLayout # "comment at end of line")
        => BlockSteps(yaml) = WrittenSteps(gysSteps)

\* C1: a pipeline of two steps with fused, spaced and bare arguments has
\* been converted and reads back as written.
C1_Witness ==
    /\ gysPc = "converted"
    /\ Len(gysSteps) = 2
    /\ gysSteps[1] = <<"spaced", "bare">>
    /\ gysSteps[2] = <<"fused">>
    /\ gysLayout = "comment at end of step"
    /\ BlockSteps(yaml) = WrittenSteps(gysSteps)

----------------------------------------------------------------------------
(* Properties of Context::is_gys                                            *)

\* The text holds a '|' between two characters that f accepts
FlankedPipe(text, f(_)) ==
    \E i \in 2..(Len(text) - 1) :
        text[i] = "|" /\ f(text[i - 1]) /\ f(text[i + 1])

IsSpace(c) == c = " "

\* The text begins or ends with '|'
OuterPipe(text) ==
    text # <<>> /\ (text[1] = "|" \/ text[Len(text)] = "|")

Opens(text) == text # <<>> /\ text[1] = "["
Closes(text) == text # <<>> /\ text[Len(text)] = "]"

\* The first whitespace-delimited token of the text has no ':' at its end;
\* a text without a token has none
NoColonOnFirstToken(text) ==
    LET starts == {i \in 1..Len(text) : ~IsWhitespace(text[i])}
        from == CHOOSE i \in starts : \A j \in starts : i <= j
        ends == {i \in from..Len(text) :
                    i = Len(text) \/ IsWhitespace(text[i + 1])}
        to == CHOOSE i \in ends : \A j \in ends : i <= j
    IN  starts = {} \/ text[to] # ":"

C15_Brackets ==
    gysPc = "detected" =>
        /\ OuterPipe(gysText) => detected[2]
        /\ (~FlankedPipe(gysText, IsSpace) /\ ~OuterPipe(gysText)) =>
              /\ Opens(gysText) => (detected[2] <=> Closes(gysText))
              /\ Closes(gysText) => (detected[2] <=> Opens(gysText))

\* C15 witness: is_gys of '[c]' has returned true
C15_Witness ==
    /\ gysPc = "detected"
    /\ gysText = <<"[", "c", "]">>
    /\ detected = <<"bool", TRUE>>

\* C15 witness of the other cases: 'c]' is no shorthand
C15_WitnessUnmatched ==
    /\ gysPc = "detected"
    /\ gysText = <<"c", "]">>
    /\ detected = <<"bool", FALSE>>

----------------------------------------------------------------------------
(* Properties of the syntax errors of gys_to_yaml and GysResource::new      *)

\* The tokens of the steps of a text without comments and brackets
TokensOfSteps(text) ==
    LET steps == Split(text, "|")
    IN  [i \in 1..Len(steps) |-> SplitWhitespace(steps[i])]

\* A step of the text has, behind its name, a last token `key:`
UnterminatedKey(text) ==
    \E i \in 1..Len(TokensOfSteps(text)) :
        LET tokens == TokensOfSteps(text)[i]
        IN  Len(tokens) >= 2 /\ EndsWith(tokens[Len(tokens)], ":")

\* A step without a token stands between two steps of the text that have
\* tokens
EmptyStepInside(text) ==
    LET t == TokensOfSteps(text)
    IN  \E i \in 2..(Len(t) - 1) :
            /\ t[i] = <<>>
            /\ \E j \in 1..(i - 1) : t[j] # <<>>
            /\ \E j \in (i + 1)..Len(t) : t[j] # <<>>

\* A shorthand text of steps and tokens alone, with one of the two faults
FaultyShorthand(text) ==
    /\ \A i \in 1..Len(text) : text[i] \notin {"#", "[", "]"}
    /\ NoColonOnFirstToken(text)
    /\ UnterminatedKey(text) \/ EmptyStepInside(text)

\* C16: for a shorthand text with an unterminated `key:` at the end of a
\* step, or with an empty step inside a pipeline, gys_to_yaml returns the
\* text of an error and no converted definition, and GysResource::new
\* returns an error and no list of steps.
C16_SyntaxError ==
    FaultyShorthand(gysText) =>
        /\ gysPc = "converted" =>
              \/ yaml = EmptyStepText
              \/ SubSeq(yaml, 1, Len(MissingValueText)) = MissingValueText
        /\ gysPc = "resource" => resource[1] = "Err"

\* C16 for gys_to_yaml alone: the text returned is that of an error
C16_YamlError ==
    (FaultyShorthand(gysText) /\ gysPc = "converted") =>
        \/ yaml = EmptyStepText
        \/ SubSeq(yaml, 1, Len(MissingValueText)) = MissingValueText

\* C16: GysResource::new of 'c c:' has returned a resource with one step
C16_ResourceOfFault ==
    /\ gysPc = "resource"
    /\ gysText = <<"c", " ", "c", ":">>
    /\ resource = <<"GysResource", [id |-> <<"c">>, doc |-> <<>>,
                                    steps |-> << <<"c", " ", "c", ":">> >>]>>

----------------------------------------------------------------------------
(* Properties of GysArgs::value                                             *)

\* The entry of highest priority for key k among chain[1..h], or 0
LastIndexOf(chain, h, k) ==
    LET hits == {i \in 1..h : chain[i][1] = k}
    IN  IF hits = {} THEN 0 ELSE CHOOSE i \in hits : \A j \in hits : j <= i

\* The value of an entry as value() reads it
Trimmed(e) == Trim(e[2])
IsLookup(e) == StartsWith(Trimmed(e), "^")
IsDefault(e) == StartsWith(Trimmed(e), "*")
IsPlain(e) == ~IsLookup(e) /\ ~IsDefault(e)

\* The winning entry of the call's key: its entry of highest priority
Winner == LastIndexOf(Chain, Len(Chain), Trim(rawKey))

\* C2: value() returns after at most |globals| + |locals| + 1 searches: each
\* pass of the loop leaves less of the haystack, a return carries a value, None or an error, and in a table of
\* lookups only (such as a:^b, b:^a) that return is None or an error.
C2_ValueTerminates ==
    /\ searches <= Len(Chain) + 1
    /\ pc = "loop" => searches + hay <= Len(Chain)
    /\ pc = "returned" => value # NoValue
    /\ (pc = "returned" /\ \A i \in 1..Len(Chain) : IsLookup(Chain[i]))
          => value \in {None, ErrEmptyKey, ErrIncomplete(key)}

\* C2 witness: the cycle a:^b, b:^a has been chased from a to its end, with
\* one search more than there are entries, and has ended in an error
C2_Witness ==
    /\ pc = "returned"
    /\ Chain = << <<<<"b">>, <<"^", "a">>>>, <<<<"a">>, <<" ", "^", "b", " ">>>> >>
    /\ key = <<"a">>
    /\ searches = Len(Chain) + 1
    /\ value = ErrIncomplete(<<"a">>)

\* C4, as claimed: value(K) of a key whose winning entry is ^name is what
\* value(name) is against the same globals and locals.
C4_SameAsTarget ==
    (pc = "returned" /\ Winner > 0 /\ IsLookup(Chain[Winner]))
        => value = ValueOf(Chain, Tail(Trimmed(Chain[Winner])))

\* The entries below the winning entry
BelowWinner == SubSeq(Chain, 1, Winner - 1)

\* A value() that meets no default on its way
RECURSIVE MeetsNoDefault(_, _, _)
MeetsNoDefault(chain, h, n) ==
    LET i == LastIndexOf(chain, h, n)
    IN  IF i = 0 THEN TRUE
        ELSE IF IsDefault(chain[i]) THEN FALSE
        ELSE IF IsLookup(chain[i])
        THEN MeetsNoDefault(chain, i - 1, Tail(Trimmed(chain[i])))
        ELSE TRUE

\* C4, amended: value(K) of a key whose winning entry is ^name is what
\* value(name) is against the entries of lower priority than the winning
\* entry alone, when that meets no default; with an error naming K where
\* value(name) is None or an error there.
C4_SameAsTargetBelow ==
    (pc = "returned" /\ Winner > 0 /\ IsLookup(Chain[Winner]))
        => LET name == Tail(Trimmed(Chain[Winner]))
               below == ValueOf(BelowWinner, name)
           IN  MeetsNoDefault(BelowWinner, Len(BelowWinner), name)
                  => value = IF below[1] = "Some" THEN below
                             ELSE ErrIncomplete(Trim(rawKey))

\* C4 witness: the winning entry of a is ^b, an entry of b of higher priority
\* is passed over and the entry of b below supplies the value
C4_Witness ==
    /\ pc = "returned"
    /\ key = <<"a">>
    /\ Len(Chain) = 3
    /\ Chain[1] = << <<"b">>, <<"v">> >>
    /\ Chain[2] = << <<"a">>, <<" ", "^", "b", " ">> >>
    /\ Chain[3] = << <<"b">>, <<" ", "w", " ">> >>
    /\ value = Some(<<"v">>)

\* C5: the entries value() finds are of strictly falling priority; behind a
\* lookup ^name the next entry found is the entry of name of highest priority
\* below the lookup, whatever entries of name lie above it, and the search
\* ends without an entry only when there is none below.
C5_LowerPriorityOnly ==
    /\ \A n \in 1..Len(trail) : trail[n] \in 1..Len(Chain)
    /\ \A n \in 2..Len(trail) :
          /\ trail[n] < trail[n - 1]
          /\ IsLookup(Chain[trail[n - 1]]) =>
                trail[n] = LastIndexOf(Chain, trail[n - 1] - 1,
                                       Tail(Trimmed(Chain[trail[n - 1]])))
    /\ (pc = "returned" /\ trail # <<>> /\ IsLookup(Chain[trail[Len(trail)]]))
          => LastIndexOf(Chain, trail[Len(trail)] - 1,
                         Tail(Trimmed(Chain[trail[Len(trail)]]))) = 0
    /\ (pc = "returned" /\ trail # <<>> /\ IsPlain(Chain[trail[Len(trail)]]))
          => value = Some(Trimmed(Chain[trail[Len(trail)]]))

\* C5 witness: global b:v, locals a:^b, b:w; the lookup of a has passed over
\* the local b and has returned the global one
C5_Witness ==
    /\ pc = "returned"
    /\ globals = << << <<"b">>, <<"v">> >> >>
    /\ locals = << << <<"a">>, <<" ", "^", "b", " ">> >>,
                   << <<"b">>, <<" ", "w", " ">> >> >>
    /\ key = <<"a">>
    /\ trail = <<2, 1>>
    /\ value = Some(<<"v">>)

\* C6: for a key whose winning entry has no sigil, value() returns the
\* trimmed value of the last entry of the key in locals, or without one in
\* locals of the last in globals; None when neither holds the key; the key
\* is trimmed first, and an empty key is a syntax error.
C6_PlainValue ==
    pc = "returned" =>
        LET k == Trim(rawKey)
            l == LastIndexOf(locals, Len(locals), k)
            g == LastIndexOf(globals, Len(globals), k)
            e == IF l > 0 THEN locals[l] ELSE globals[g]
        IN  IF k = <<>> THEN value = ErrEmptyKey
            ELSE IF l = 0 /\ g = 0 THEN value = None
            ELSE IsPlain(e) => value = Some(Trim(e[2]))

\* C6 witness: the padded key " b " has been resolved to the trimmed value of
\* the last of two local entries, over a global one
C6_Witness ==
    /\ pc = "returned"
    /\ rawKey = <<" ", "b", " ">>
    /\ globals = << << <<"b">>, <<"v">> >> >>
    /\ locals = << << <<"b">>, <<"v">> >>, << <<"b">>, <<" ", "w", " ">> >> >>
    /\ value = Some(<<"w">>)
    /\ used = << <<<<"b">>, <<"w">>>> >>

\* C7, as claimed: with a winning entry *text, value(K) is the plain value of
\* K of a lower-priority entry when there is one, and otherwise text.
C7_DefaultAsClaimed ==
    (pc = "returned" /\ Winner > 0 /\ IsDefault(Chain[Winner]))
        => LET plain == {i \in 1..(Winner - 1) :
                            Chain[i][1] = key /\ IsPlain(Chain[i])}
               top == CHOOSE i \in plain : \A j \in plain : j <= i
           IN  IF plain # {}
               THEN value = Some(Trimmed(Chain[top]))
               ELSE value = Some(Tail(Trimmed(Chain[Winner])))

\* C7, amended: with a winning entry *text, value(K) is the value of the next
\* entry of K of lower priority when that entry is plain; without any entry
\* of K of lower priority it is text, or for an empty text a syntax error.
C7_Default ==
    (pc = "returned" /\ Winner > 0 /\ IsDefault(Chain[Winner]))
        => LET next == LastIndexOf(Chain, Winner - 1, key)
               text == Tail(Trimmed(Chain[Winner]))
           IN  /\ next = 0 =>
                     value = IF text # <<>> THEN Some(text)
                             ELSE ErrIncomplete(key)
               /\ (next > 0 /\ IsPlain(Chain[next])) =>
                     value = Some(Trimmed(Chain[next]))

\* C7 witness: the local default b:*d has given way to the global b:v
C7_Witness ==
    /\ pc = "returned"
    /\ key = <<"b">>
    /\ globals = << << <<"b">>, <<"v">> >> >>
    /\ locals = << << <<"b">>, <<"*", "d">> >> >>
    /\ value = Some(<<"v">>)

\* C8: a chain of lookups that ends at a name without an entry, with no
\* default staged, returns the syntax error; used is as it was before the
\* call; and a call that repeats the key of a failed call fails alike.
C8_IncompleteIsError ==
    /\ (pc = "returned" /\ trail # <<>> /\ IsLookup(Chain[trail[Len(trail)]])
           /\ \A n \in 1..Len(trail) : ~IsDefault(Chain[trail[n]]))
          => value = ErrIncomplete(key)
    /\ (pc = "returned" /\ IsErr(value)) => used = usedAtCall
    /\ (pc = "returned" /\ IsErr(prevValue) /\ prevKey = key)
          => value = prevValue /\ used = usedAtCall

\* C8 witness: the second of two calls for a, whose lookup ^b finds no b, has
\* returned the error of the first
C8_Witness ==
    /\ pc = "returned"
    /\ budget = 0
    /\ Chain = << <<<<"a">>, <<" ", "^", "b", " ">>>> >>
    /\ key = <<"a">>
    /\ prevKey = <<"a">>
    /\ prevValue = ErrIncomplete(<<"a">>)
    /\ value = ErrIncomplete(<<"a">>)
    /\ used = <<>>

----------------------------------------------------------------------------
(* Properties of GysArgs::flag                                              *)

\* The value the key of the call resolves to, by the entries alone: the
\* entry of highest priority, behind a lookup the entry of the name below
\* it, behind a default the entry of the key below it, or else the default
RECURSIVE Resolved(_, _, _, _)
Resolved(chain, h, n, d) ==
    LET i == LastIndexOf(chain, h, n)
    IN  IF i = 0 THEN (IF d # <<>> THEN Some(d) ELSE None)
        ELSE IF IsLookup(chain[i])
        THEN Resolved(chain, i - 1, Tail(Trimmed(chain[i])), d)
        ELSE IF IsDefault(chain[i])
        THEN Resolved(chain, i - 1, Trim(rawKey), Tail(Trimmed(chain[i])))
        ELSE Some(Trimmed(chain[i]))

\* C12: flag(K) is true exactly when K resolves to a value other than
\* 'false' in any letter case, an empty value and any other text included;
\* it is false when K is absent or resolves to 'false' in any letter case.
C12_FlagTrue ==
    (pc = "flagged" /\ ~IsErr(flag)) =>
        LET r == Resolved(Chain, Len(Chain), Trim(rawKey), <<>>)
        IN  /\ flag \in {Ok(TRUE), Ok(FALSE)}
            /\ flag = Ok(TRUE) <=>
                  (r # None /\ ToLowercase(r[2]) # FalseChars)
            /\ LastIndexOf(Chain, Len(Chain), Trim(rawKey)) = 0
                  => flag = Ok(FALSE)

\* C12 witness: flag() of a key whose entry b:FaLsE lies over the bare entry
\* b has returned false
C12_Witness ==
    /\ pc = "flagged"
    /\ rawKey = <<" ", "b", " ">>
    /\ Chain = << <<<<"b">>, <<>>>>, <<<<"b">>, <<"F", "a", "L", "s", "E">>>> >>
    /\ flag = Ok(FALSE)

\* C12 witness of a flag that is true: the bare key a
C12_WitnessTrue ==
    /\ pc = "flagged"
    /\ rawKey = <<"a">>
    /\ Chain = << <<<<"a">>, <<>>>> >>
    /\ flag = Ok(TRUE)

----------------------------------------------------------------------------
(* Properties of OperatorArgs::value                                        *)

\* C3: value() terminates on every table: value_recursive_search, which
\* looks up a new key in every frame, is never deeper than the table has
\* keys, plus the one frame that finds no entry.
C3_RecursionBounded ==
    opPc = "search" => opDepth <= Cardinality(DOMAIN opArgs) + 1

----------------------------------------------------------------------------
(* Properties of ParsedParameters::new                                      *)

\* What chase finds for the key of schema entry i
Chased(i) == Chase(ppGlobals, ppLocals, gamut[i].key)

\* Schema entry i is required and its key is found in neither scope
RequiredAndAbsent(i) ==
    /\ gamut[i].type # "Flag"
    /\ gamut[i].default = None
    /\ Chased(i) = None

\* Schema entry i is given a value that its type does not read, a chase
\* that fails, or a default that its type does not read
Malformed(i) ==
    \/ IsErr(Chased(i))
    \/ Chased(i)[1] = "Some" /\ ~IsOk(Typed(gamut[i].type, Chased(i)[2]))
    \/ /\ Chased(i) = None
       /\ gamut[i].type # "Flag"
       /\ gamut[i].default # None
       /\ gamut[i].default[2] # <<>>
       /\ ~IsOk(Typed(gamut[i].type, gamut[i].default[2]))

\* The bin of the parsed parameters for the type of schema entry i
BinOf(i) ==
    CASE gamut[i].type = "Natural" -> ppParsed[2].bins.natural
      [] gamut[i].type = "Integer" -> ppParsed[2].bins.integer
      [] gamut[i].type = "Real" -> ppParsed[2].bins.real
      [] gamut[i].type = "Series" -> ppParsed[2].bins.series
      [] gamut[i].type = "Text" -> ppParsed[2].bins.text

\* C9, as claimed: new() fails with MissingParam(key) for every required
\* schema entry whose key is found in neither scope.
C9_MissingParamAsClaimed ==
    ppPc = "done" =>
        \A i \in 1..Len(gamut) :
            RequiredAndAbsent(i) => ppResult = MissingParam(gamut[i].key)

\* C9, amended: with a required schema entry whose key is found in neither
\* scope new() fails, with MissingParam(key) when no entry before it in the
\* schema is required and absent or malformed; MissingParam names only such
\* an entry, never a flag; a failure produces no ParsedParameters; and in a
\* ParsedParameters an absent key with a default has the default, a Series
\* default of the empty text being no series.
C9_MissingParam ==
    ppPc = "done" =>
        /\ (\E i \in 1..Len(gamut) : RequiredAndAbsent(i)) => IsErr(ppResult)
        /\ \A i \in 1..Len(gamut) :
              ( /\ RequiredAndAbsent(i)
                /\ \A j \in 1..(i - 1) : ~RequiredAndAbsent(j) /\ ~Malformed(j) )
                 => ppResult = MissingParam(gamut[i].key)
        /\ \A i \in 1..Len(gamut) :
              ppResult = MissingParam(gamut[i].key) =>
                 \E j \in 1..Len(gamut) :
                    gamut[j].key = gamut[i].key /\ RequiredAndAbsent(j)
        /\ IsErr(ppResult) <=> ppParsed = NoValue
        /\ ppResult = <<"Ok">> =>
              \A i \in 1..Len(gamut) :
                 ( /\ gamut[i].type # "Flag"
                   /\ Chased(i) = None
                   /\ gamut[i].default # None
                   /\ gamut[i].default[2] # <<>> )
                    => /\ gamut[i].key \in DOMAIN BinOf(i)
                       /\ BinOf(i)[gamut[i].key]
                             = Typed(gamut[i].type, gamut[i].default[2])[2]

\* C9 witness: behind an entry that has taken its default, the required
\* text k, absent from locals and globals, has failed the construction
C9_Witness ==
    /\ ppPc = "done"
    /\ gamut = <<Natural(<<"m">>, Some(<<"0">>)), Text(<<"k">>, None)>>
    /\ <<"k">> \notin DOMAIN ppLocals \cup DOMAIN ppGlobals
    /\ ppBins.natural = (<<"m">> :> 0)
    /\ ppResult = MissingParam(<<"k">>)
    /\ ppParsed = NoValue

\* Schema entry i is the entry at which new() has returned an error
FailedAt(i) == ppPc = "done" /\ IsErr(ppResult) /\ ppIdx = i

\* C11: the coercion of a Flag entry never fails: new() returns no error at
\* a Flag entry whose key resolves to a value, whatever the value; an empty
\* value or "true" in any letter case sets the flag, and any other value,
\* "false" among them, leaves it unset.
C11_FlagNeverFails ==
    \A i \in 1..Len(gamut) :
        (gamut[i].type = "Flag" /\ Chased(i)[1] = "Some")
            => /\ ~FailedAt(i)
               /\ ppResult = <<"Ok">> =>
                     (gamut[i].key \in ppParsed[2].bins.boolean
                         <=> \/ Chased(i)[2] = <<>>
                             \/ ToLowercase(Chased(i)[2]) = TrueText)

\* Schema entry i has been passed without an error
Passed(i) == ppIdx > i

\* The text a Series entry reads: the value chased, or behind an absent key
\* a default that is not empty; <<"none">> where there is neither
SeriesText(i) ==
    IF Chased(i)[1] = "Some" THEN <<"text", Chased(i)[2]>>
    ELSE IF Chased(i) = None /\ gamut[i].default # None
               /\ gamut[i].default[2] # <<>>
    THEN <<"text", gamut[i].default[2]>>
    ELSE <<"none">>

C13_WitnessBad ==
    /\ ppPc = "done"
    /\ gamut = <<Series(<<"k">>, None)>>
    /\ <<"k">> \in DOMAIN ppLocals
    /\ ppResult = BadParam(<<"k">>, <<"1", ",", "x">>)

\* C10: in a ParsedParameters, ignored holds exactly the keys of the step's
\* definition that no schema entry declares, and neither a declared key nor
\* the operator name.
C10_IgnoredUndeclared ==
    (ppPc = "done" /\ ppResult = <<"Ok">>) =>
        ppParsed[2].ignored =
            {k \in DOMAIN ppLocals \ {NameKey} :
                \A i \in 1..Len(gamut) : gamut[i].key # k}

----------------------------------------------------------------------------
(* Properties of utm and butm                                               *)

\* The zone that the definition or the globals supply is a natural number
\* of 1..60
GoodZone ==
    LET chased == Chase(ppGlobals, ppLocals, ZoneKey)
    IN  /\ chased[1] = "Some"
        /\ IsOk(ParseUsize(chased[2]))
        /\ ParseUsize(chased[2])[2] \in 1..60

\* C17 as the claim words it: utm (and butm) returns an Op if and only if a
\* zone is supplied and is a natural number of 1..60. It is violated: with
\* zone:32, inv:false or ellps:^q fails the construction.
C17_ZoneAsClaimed ==
    innerPc = "returned" => (innerOp[1] = "Op" <=> GoodZone)

\* C17: utm (and butm) returns an Op if and only if ParsedParameters::new
\* succeeds on UTM_GAMUT and the zone supplied is a natural number of 1..60;
\* zone 0, a zone of 61 or more, a missing zone and a zone that is no
\* natural number each return an error and no Op.
C17_Zone ==
    innerPc = "returned" =>
        /\ innerOp[1] = "Op" <=> (ppResult = <<"Ok">> /\ GoodZone)
        /\ ~GoodZone => IsErr(innerOp)
        /\ innerOp[1] \in {"Op", "Err"}

\* C17 witness: utm has returned an Op for zone:60
C17_Witness ==
    /\ innerPc = "returned"
    /\ ZoneKey \in DOMAIN ppLocals
    /\ ppLocals[ZoneKey] = <<"6", "0">>
    /\ innerOp[1] = "Op"

\* C17 witness of the failures: zone:61 has returned the error of the zone
\* check, and a definition without zone has returned MissingParam
C17_WitnessRange ==
    /\ innerPc = "returned"
    /\ ZoneKey \in DOMAIN ppLocals
    /\ ppLocals[ZoneKey] = <<"6", "1">>
    /\ innerOp[1] = "Err"
    /\ innerOp[2] = "General"

C17_WitnessMissing ==
    /\ innerPc = "returned"
    /\ ZoneKey \notin DOMAIN ppLocals
    /\ ppGlobals = EmptyMap
    /\ innerOp = MissingParam(ZoneKey)

\* The zone that the definition or the globals supply, as a number
SuppliedZone == ParseUsize(Chase(ppGlobals, ppLocals, ZoneKey)[2])[2]

\* C18: after every successful utm (or butm) construction for zone z, the
\* fixed slots are k[0] = 0.9996, lon[0] = (-183 + 6z) degrees expressed in
\* radians, lat[0] = 0, x[0] = 500000 and y[0] = 0, whatever other
\* parameters the definition or the globals carry.
C18_UtmSlots ==
    (innerPc = "returned" /\ innerOp[1] = "Op") =>
        LET p == innerOp[2].params
        IN  /\ p.k[1] = <<"f64", 0, 999600000>>
            /\ p.lon[1] = <<"rad", 6 * SuppliedZone - 183, 0>>
            /\ p.lat[1] = <<"f64", 0, 0>>
            /\ p.x[1] = <<"f64", 500000, 0>>
            /\ p.y[1] = <<"f64", 0, 0>>

\* C18 witness: utm zone:32 y_0:100 has returned an Op, whose central
\* meridian is 9 degrees in radians and whose false northing is 0
C18_Witness ==
    /\ innerPc = "returned"
    /\ innerOp[1] = "Op"
    /\ ZoneKey \in DOMAIN ppLocals
    /\ ppLocals[ZoneKey] = <<"3", "2">>
    /\ Y0Key \in DOMAIN ppLocals
    /\ innerOp[2].params.lon[1] = <<"rad", 9, 0>>
    /\ innerOp[2].params.y[1] = <<"f64", 0, 0>>

----------------------------------------------------------------------------
(* Properties of new of laea.rs                                             *)

\* The central latitude that the definition or the globals supply, in
\* degrees, as sign, whole degrees and digits behind the point; 0 when
\* they supply none
SuppliedLat0 ==
    LET chased == Chase(ppGlobals, ppLocals, Lat0Key)
    IN  IF chased[1] = "Some" THEN ParseF64(chased[2])[2] ELSE <<1, 0, <<>>>>

\* new has returned BadParam for lat_0, with the definition
Lat0Refused ==
    /\ innerOp[1] = "Err"
    /\ innerOp[2] = "BadParam"
    /\ innerOp[3] = Lat0Key
    /\ innerOp[4] = Definition(ppLocals)

\* The latitude d is infinite or more than 90 degrees and tol billionths of
\* a degree from the equator
Beyond(d, tol) ==
    \/ d[3] = InfText
    \/ d[3] # NanText /\ (d[2] > 90 \/ (d[2] = 90 /\ Nano(d[3]) > tol))

C19_WitnessNan ==
    /\ innerPc = "returned"
    /\ Lat0Key \in DOMAIN ppLocals
    /\ ppLocals[Lat0Key] = <<"N", "a", "N">>
    /\ Lat0Refused

\* C19 witness of the poles: laea lat_0:-90 has returned an Op
C19_WitnessPole ==
    /\ innerPc = "returned"
    /\ Lat0Key \in DOMAIN ppLocals
    /\ ppLocals[Lat0Key] = <<"-", "9", "0">>
    /\ innerOp[1] = "Op"

----------------------------------------------------------------------------
(* Properties of the fwd and inv kernels                                    *)

\* The batch is as it was given
Untouched == operands = before

\* The precomputed values of a kernel, as the claim lists them
ListedFor(name) ==
    IF name = "tmerc" THEN {"conformal", "tm", "scaled_radius", "zb"}
    ELSE IF name = "btmerc" THEN {}
    ELSE {"xi_0", "qp", "rq", "d", "authalic"}

\* The precomputed values that one direction of a kernel reads
ReadBy(name, direction) ==
    IF name = "tmerc" THEN {"conformal", "tm", "scaled_radius", "zb"}
    ELSE IF name = "btmerc" THEN {}
    ELSE IF direction = "fwd" THEN {"xi_0", "qp", "rq", "d"}
    ELSE {"xi_0", "rq", "d", "authalic"}

\* C20 as the claim words it: when one of the listed precomputed values
\* (tmerc: conformal, tm, scaled_radius, zb; laea: xi_0, qp, rq, d,
\* authalic) is missing, fwd and inv return a success count of 0 and leave
\* the batch unchanged. It is violated: fwd of laea never reads authalic,
\* and inv of laea never reads qp.
C20_SoftFailureAsClaimed ==
    (innerPc \in {"fwd", "inv"} /\ ~(ListedFor(kernel) \subseteq innerOp[2].given))
        => (applied = Ok(0) /\ Untouched)

\* C20: when a precomputed value that the direction applied reads is
\* missing (tmerc, both directions: conformal, tm, scaled_radius, zb; laea
\* forward: xi_0, qp, rq, d; laea inverse: xi_0, rq, d, authalic), the
\* kernel returns a success count of 0, no error, and leaves every
\* coordinate of the batch unchanged; and no kernel ever returns an error.
C20_SoftFailure ==
    innerPc \in {"fwd", "inv"} =>
        /\ applied[1] = "Ok"
        /\ ~(ReadBy(kernel, innerPc) \subseteq innerOp[2].given)
             => (applied = Ok(0) /\ Untouched)

\* C20 witness: inv of laea on a batch of two coordinates, with nothing but
\* authalic missing, has returned 0 and left the batch as it was
C20_Witness ==
    /\ innerPc = "inv"
    /\ kernel = "laea"
    /\ innerOp[2].given = LaeaPrecomputed \ {"authalic"}
    /\ Len(operands) = 2
    /\ applied = Ok(0)
    /\ Untouched

\* C20 witness for tmerc: fwd without zb has returned 0
C20_WitnessTmerc ==
    /\ innerPc = "fwd"
    /\ kernel = "tmerc"
    /\ innerOp[2].given = TmercPrecomputed \ {"zb"}
    /\ Len(operands) = 2
    /\ applied = Ok(0)
    /\ Untouched

\* C20 witness of what the claim misses: fwd of laea without authalic has
\* projected both coordinates of its batch
C20_WitnessUnread ==
    /\ innerPc = "fwd"
    /\ kernel = "laea"
    /\ innerOp[2].given = LaeaPrecomputed \ {"authalic"}
    /\ applied = Ok(2)
    /\ ~Untouched

\* The aspect flags among the booleans of the Op that new has returned
AspectFlags ==
    innerOp[2].params.bins.boolean \cap {NorthPolar, SouthPolar, Equatoreal, Oblique}

\* The latitude d, in degrees, is within 1e-10 radians (5.73 billionths of
\* a degree) of the latitude of s * whole degrees
Within(d, s, whole) ==
    /\ d[3] \notin {NanText, InfText}
    /\ d[1] = s
    /\ \/ d[2] = whole /\ Nano(d[3]) <= 5
       \/ d[2] = whole - 1 /\ Nano(d[3]) >= 999999995

\* C25: laea construction sets exactly one of the aspect flags: north_polar
\* if and only if lat_0 is within 1e-10 of +pi/2, south_polar if and only if
\* it is within 1e-10 of -pi/2, equatoreal if and only if |lat_0| < 1e-10,
\* and oblique for every other accepted lat_0. It is violated: for lat_0 =
\* -90 degrees the flag is north_polar.
C25_Aspect ==
    (innerPc = "returned" /\ innerOp[1] = "Op") =>
        LET d == SuppliedLat0
            equator == d[2] = 0 /\ Nano(d[3]) <= 5 /\ d[3] \notin {NanText, InfText}
        IN  AspectFlags =
                IF Within(d, 1, 90) THEN {NorthPolar}
                ELSE IF Within(d, -1, 90) THEN {SouthPolar}
                ELSE IF equator THEN {Equatoreal}
                ELSE {Oblique}

\* The part of C25 that holds: exactly one aspect flag is set, north_polar
\* if and only if lat_0 is within 1e-10 of either pole, south_polar never
C25_AspectOfAbs ==
    (innerPc = "returned" /\ innerOp[1] = "Op") =>
        LET d == SuppliedLat0
            equator == d[2] = 0 /\ Nano(d[3]) <= 5 /\ d[3] \notin {NanText, InfText}
        IN  AspectFlags =
                IF Within(d, 1, 90) \/ Within(d, -1, 90) THEN {NorthPolar}
                ELSE IF equator THEN {Equatoreal}
                ELSE {Oblique}

\* C25, the failing case reached: laea lat_0:-90 has returned an Op whose
\* flag is north_polar
C25_SouthIsNorth ==
    /\ innerPc = "returned"
    /\ innerOp[1] = "Op"
    /\ Lat0Key \in DOMAIN ppLocals
    /\ ppLocals[Lat0Key] = <<"-", "9", "0">>
    /\ AspectFlags = {NorthPolar}

----------------------------------------------------------------------------
(* Properties of the steps of a GysResource                                 *)

\* The characters of s that are not in the set out, in their order
Without(s, out) == SelectSeq(s, LAMBDA c : c \notin out)

\* The lines of the text that are no docstring, each up to its first '#',
\* one behind the other
CodeText(text) ==
    LET lines == Split(text, "\n")
        code(line) ==
            IF Len(Trim(line)) >= 2 /\ SubSeq(Trim(line), 1, 2) = <<"#", "#">>
            THEN <<>>
            ELSE Split(line, "#")[1]
    IN  Join([i \in 1..Len(lines) |-> code(lines[i])], <<"\n">>)

\* C29: for every definition text, each element of GysResource.steps is
\* non-empty, has no leading or trailing whitespace, has every whitespace
\* run collapsed to one space, contains no colon followed by a space, and
\* contains no `|` and no `#`; the steps keep the order of the definition,
\* and an empty definition yields zero steps and an empty doc.
C29_Steps ==
    gysPc = "resource" =>
        LET steps == resource[2].steps
        IN  /\ \A i \in 1..Len(steps) :
                  /\ steps[i] # <<>>
                  /\ Trim(steps[i]) = steps[i]
                  /\ \A j \in 1..Len(steps[i]) :
                        /\ steps[i][j] \notin {"|", "#", "\n", "\t", "\r"}
                        /\ j > 1 /\ steps[i][j] = " " =>
                              steps[i][j - 1] \notin {" ", ":"}
            /\ Without(Join(steps, <<>>), {" "})
                   = Without(CodeText(gysText), {" ", "\n", "|"})
            /\ gysText = <<>> => (steps = <<>> /\ resource[2].doc = <<>>)

\* C29 witness: the definition 'c: c' has given the one step 'c:c'
C29_Witness ==
    /\ gysPc = "resource"
    /\ gysText = <<"c", ":", " ", "c">>
    /\ resource[2].steps = << <<"c", ":", "c">> >>

\* C29 witness of the order: the definition ']|[' has given the steps ']'
\* and '[', and the empty definition no step
C29_WitnessOrder ==
    /\ gysPc = "resource"
    /\ gysText = <<"]", "|", "[">>
    /\ resource[2].steps = << <<"]">>, <<"[">> >>

C29_WitnessEmpty ==
    /\ gysPc = "resource"
    /\ gysText = <<>>
    /\ resource[2].steps = <<>>
    /\ resource[2].doc = <<>>

----------------------------------------------------------------------------
(* Properties of CoordinateTuple                                            *)

\* The number v of degrees, in radians
InRadians(v) ==
    IF v[1] = "f64" /\ (v[2] # 0 \/ v[3] # 0) THEN <<"rad", v[2], v[3]>> ELSE v

\* C24: geo(lat, lon, h, t) and gis(lon, lat, h, t) produce the same tuple:
\* slot 0 is the longitude in radians, slot 1 the latitude in radians,
\* slots 2 and 3 are h and t unchanged; to_radians and to_degrees change
\* only slots 0 and 1, and gis(a, b, h, t) equals raw(a, b, h, t).to_radians().
C24_SameTuple ==
    LET built == <<InRadians(ctIn.lon), InRadians(ctIn.lat), ctIn.h, ctIn.t>>
    IN  /\ ctPc \in {<<"geo">>, <<"gis">>, <<"raw", "to_radians">>}
              => ctOut = built
        /\ ctPc # <<>> => (ctOut[3] = ctIn.h /\ ctOut[4] = ctIn.t)

\* C24 witness: geo(-55.5, 12, h, t) has given the tuple whose slot 0 is 12
\* degrees in radians and whose slot 1 is -55.5 degrees in radians
C24_Witness ==
    /\ ctPc = <<"geo">>
    /\ ctIn.lat = <<"f64", -55, -500000000>>
    /\ ctIn.lon = <<"f64", 12, 0>>
    /\ ctOut[1] = <<"rad", 12, 0>>
    /\ ctOut[2] = <<"rad", -55, -500000000>>

\* C24 witness of the conversions: to_degrees behind gis has given back
\* the degrees, with the height and the time as they were
C24_WitnessDegrees ==
    /\ ctPc = <<"gis", "to_degrees">>
    /\ ctIn.lon = <<"f64", 12, 0>>
    /\ ctIn.h = <<"f64", 12, 0>>
    /\ ctOut[1] = <<"f64", 12, 0>>
    /\ ctOut[3] = <<"f64", 12, 0>>

\* The result r is the number sign * (whole + seconds / 3600) degrees
IsDegrees(r, sign, whole, seconds) ==
    /\ r[1] = "f64"
    /\ IF r[2] = 0 \/ (r[3] = 0 /\ r[4] = 0)
       THEN whole = 0 /\ seconds = 0
       ELSE r[2] = sign /\ r[3] = whole /\ r[4] = seconds

\* C30 as the claim words it: for every d >= 0, d = 0 included, and every
\* m, s >= 0, dms_to_dd(d, m, s) = d + m/60 + s/3600 and dm_to_dd(d, m) =
\* d + m/60; for d < 0 the result is the negation of the result for |d|.
\* It is violated: for d = 0 the result is 0, whatever m and s are.
C30_Degrees ==
    ctPc \in {<<"dms_to_dd">>, <<"dm_to_dd">>} =>
        IF ctIn.d = MinI32 THEN ctOut[1] = "f64" /\ ctOut[2] = -1 /\ ctOut[3] > 0
        ELSE IF ctIn.d >= 0
        THEN IsDegrees(ctOut, 1, ctIn.d, 60 * ctIn.m + ctIn.s)
        ELSE IsDegrees(ctOut, -1, 0 - ctIn.d, 60 * ctIn.m + ctIn.s)

\* The part of C30 that holds: the same for every d but 0 and the least i32
C30_DegreesNotZero ==
    (ctPc \in {<<"dms_to_dd">>, <<"dm_to_dd">>} /\ ctIn.d \notin {0, MinI32}) =>
        IF ctIn.d > 0
        THEN IsDegrees(ctOut, 1, ctIn.d, 60 * ctIn.m + ctIn.s)
        ELSE IsDegrees(ctOut, -1, 0 - ctIn.d, 60 * ctIn.m + ctIn.s)

\* C30, the failing case reached: dms_to_dd(0, 30, 36.) has returned
\* 0 * (0 + 1836 / 3600), which is 0
C30_ZeroDegrees ==
    /\ ctPc = <<"dms_to_dd">>
    /\ ctIn = [d |-> 0, m |-> 30, s |-> 36]
    /\ ctOut = <<"f64", 0, 0, 1836>>

\* The last call was the only one, and its let-else guards found their values
Ran == innerPc \in {"fwd", "inv"} /\ GuardsPassed(innerOp[2], innerPc)

\* The kernel has not counted the coordinate i of the batch it was given:
\* it has rejected it as out of domain
RejectedAt(i) == KernelStep(innerOp[2], innerPc, before[i])[2] = 0

\* The slots 0 and 1 of the coordinate i are NaN
NanAt(i) == operands[i][1] = NanSlot /\ operands[i][2] = NanSlot

\* C21 as the claim words it: every coordinate that a kernel rejects as out
\* of domain (tmerc forward and inverse, laea inverse) has its slots 0 and 1
\* overwritten with NaN. It is violated: inv of laea leaves the coordinate
\* it rejects as it was.
C21_RejectedIsNan ==
    Ran => \A i \in 1..Len(operands) : RejectedAt(i) => NanAt(i)

\* The part of C21 that holds: a coordinate that tmerc rejects has NaN in
\* its slots 0 and 1, and one that laea rejects is as it was given
C21_RejectedByTmercIsNan ==
    Ran => \A i \in 1..Len(operands) :
               RejectedAt(i) => IF kernel = "tmerc" THEN NanAt(i)
                                ELSE operands[i] = before[i]

\* C21, the failing case reached: inv of laea has rejected a coordinate
\* 20 000 km east of the false origin, and its slots 0 and 1 are not NaN
C21_LaeaNotNan ==
    /\ Ran
    /\ kernel = "laea"
    /\ innerPc = "inv"
    /\ \E i \in 1..Len(operands) :
           /\ RejectedAt(i)
           /\ ~NanAt(i)
           /\ operands[i][1] = Metres(Whole(innerOp[2].params.x[1]) + FarMetres)

\* C21, the cases that hold reached: fwd and inv of tmerc have rejected a
\* coordinate and left NaN in its slots 0 and 1
C21_TmercFwdNan ==
    Ran /\ kernel = "tmerc" /\ innerPc = "fwd"
        /\ \E i \in 1..Len(operands) : RejectedAt(i) /\ NanAt(i) /\ before[i][1] = Angle(99)

C21_TmercInvNan ==
    Ran /\ kernel = "tmerc" /\ innerPc = "inv"
        /\ \E i \in 1..Len(operands) : RejectedAt(i) /\ NanAt(i)

\* The coordinates of the batch given that have a NaN in slot 0 or 1
NanGiven == {i \in 1..Len(before) : NanIn(before[i])}

\* The coordinates of the batch given that the kernel rejects
RejectedGiven == {i \in 1..Len(before) : RejectedAt(i)}

\* C22 as the claim words it: a kernel whose precomputed values are present
\* visits each coordinate once, in index order, never returns an error, and
\* returns the length of the batch minus the number of coordinates that
\* were out of domain or NaN on input; the count is between 0 and the
\* length. It is violated: a coordinate with a NaN on input is counted.
C22_SuccessCount ==
    Ran =>
        /\ applied = Ok(Len(before) - Cardinality(RejectedGiven \cup NanGiven))
        /\ \A i \in 1..Len(before) :
               operands[i] = KernelStep(innerOp[2], innerPc, before[i])[1]

\* The part of C22 that holds: the kernel returns no error but the length
\* of the batch minus the number of coordinates it rejects, it goes on after
\* a rejected coordinate, and every coordinate is as one pass of the loop
\* leaves it
C22_CountOfAccepted ==
    Ran =>
        /\ applied = Ok(Len(before) - Cardinality(RejectedGiven))
        /\ applied[2] >= 0 /\ applied[2] <= Len(before)
        /\ Len(operands) = Len(before)
        /\ \A i \in 1..Len(before) :
               operands[i] = KernelStep(innerOp[2], innerPc, before[i])[1]

\* C22, the failing case reached: fwd of tmerc has counted both coordinates
\* of a batch whose first has a NaN for its longitude
C22_NanCounted ==
    /\ Ran
    /\ kernel = "tmerc"
    /\ innerPc = "fwd"
    /\ Len(before) = 2
    /\ before[1][1] = NanSlot
    /\ applied = Ok(2)

\* C22, a case that holds reached: inv of tmerc has rejected the first
\* coordinate of its batch and counted the second
C22_GoesOn ==
    /\ Ran
    /\ kernel = "tmerc"
    /\ innerPc = "inv"
    /\ Len(before) = 2
    /\ RejectedGiven = {1}
    /\ applied = Ok(1)
    /\ operands[2][1][1] = "angle"

\* fwd has projected the coordinate i of the batch given: it is no NaN and
\* within the domain
Projected(i) ==
    /\ ~NanIn(before[i])
    /\ KernelStep(innerOp[2], "fwd", before[i])[2] = 1

\* C23 as the claim words it: for tmerc and btmerc with any lat_0, lon_0,
\* x_0, y_0 and k_0, inv after fwd returns the longitude and the latitude of
\* every point within the domain. It is violated: with lat_0 = 52 degrees
\* the latitude comes back 52 degrees greater from tmerc, 104 from btmerc.
C23_RoundTrip ==
    (innerPc = "fwd inv" /\ kernel \in {"tmerc", "btmerc"}) =>
        \A i \in 1..Len(before) :
            Projected(i) => /\ operands[i][1] = before[i][1]
                            /\ operands[i][2] = before[i][2]

\* The part of C23 that holds: the longitude comes back, and the latitude
\* with lat_0 added to it once by tmerc, twice by btmerc
C23_RoundTripButLat0 ==
    (innerPc = "fwd inv" /\ kernel \in {"tmerc", "btmerc"}) =>
        LET lat_0 == Whole(innerOp[2].params.lat[1])
        IN  \A i \in 1..Len(before) :
                Projected(i) =>
                    /\ operands[i][1] = before[i][1]
                    /\ operands[i][2] =
                           Angle(before[i][2][3]
                                 + (IF kernel = "tmerc" THEN 1 ELSE 2) * lat_0)

\* C23, the failing case reached: tmerc lat_0=52 lon_0=9 has returned the
\* point 12 E 55 N as 12 E 107 N
C23_Lat0Twice ==
    /\ innerPc = "fwd inv"
    /\ kernel = "tmerc"
    /\ Whole(innerOp[2].params.lat[1]) = 52
    /\ Whole(innerOp[2].params.lon[1]) = 9
    /\ Len(before) = 1
    /\ before[1][1] = Angle(12) /\ before[1][2] = Angle(55)
    /\ operands[1][1] = Angle(12) /\ operands[1][2] = Angle(107)

\* C23, a case that holds reached: tmerc lat_0=0 lon_0=9 x_0=500000
\* y_0=10000000 k_0=0.9996 has returned the point 12 E 55 N as it was
C23_Lat0Zero ==
    /\ innerPc = "fwd inv"
    /\ kernel = "tmerc"
    /\ Whole(innerOp[2].params.lat[1]) = 0
    /\ Whole(innerOp[2].params.lon[1]) = 9
    /\ Whole(innerOp[2].params.x[1]) = 500000
    /\ Len(before) = 1
    /\ before[1][1] = Angle(12) /\ before[1][2] = Angle(55)
    /\ operands[1] = before[1]

\* The Op is a laea of the oblique or of the equatorial aspect, with every
\* precomputed value
ObliqueOrEquatorial ==
    /\ kernel = "laea"
    /\ innerOp[2].given = LaeaPrecomputed
    /\ ~IsPolar(innerOp[2])

\* The coordinate has the slots 0 and 1 given
At(coord, s0, s1) == coord[1] = s0 /\ coord[2] = s1

\* C26 as the claim words it: laea of the oblique or equatorial aspect with
\* any lon_0 maps the centre (lon_0, lat_0) to (x_0, y_0) forward, and
\* inverse returns (lon_0, lat_0) for (x_0, y_0) and counts it. It is
\* violated: inverse returns the longitude 0 whatever lon_0 is.
C26_Centre ==
    (Ran /\ ObliqueOrEquatorial) =>
        LET p == innerOp[2].params
            centre(c) == At(c, Angle(Whole(p.lon[1])), Angle(Whole(p.lat[1])))
            origin(c) == At(c, Metres(Whole(p.x[1])), Metres(Whole(p.y[1])))
        IN  \A i \in 1..Len(before) :
                /\ (innerPc = "fwd" /\ centre(before[i])) => origin(operands[i])
                /\ (innerPc = "inv" /\ origin(before[i])) =>
                       centre(operands[i]) /\ ~RejectedAt(i)

\* The part of C26 that holds: forward maps the centre to (x_0, y_0), and
\* inverse returns (0, lat_0) for (x_0, y_0) and counts it
C26_CentreAtZero ==
    (Ran /\ ObliqueOrEquatorial) =>
        LET p == innerOp[2].params
            centre(c) == At(c, Angle(Whole(p.lon[1])), Angle(Whole(p.lat[1])))
            origin(c) == At(c, Metres(Whole(p.x[1])), Metres(Whole(p.y[1])))
        IN  \A i \in 1..Len(before) :
                /\ (innerPc = "fwd" /\ centre(before[i])) => origin(operands[i])
                /\ (innerPc = "inv" /\ origin(before[i])) =>
                       /\ At(operands[i], Angle(0), Angle(Whole(p.lat[1])))
                       /\ ~RejectedAt(i)

\* C26, the failing case reached: inv of laea lat_0=52 lon_0=9 has returned
\* 0 E 52 N for its false origin
C26_Greenwich ==
    /\ Ran /\ ObliqueOrEquatorial
    /\ innerPc = "inv"
    /\ Whole(innerOp[2].params.lat[1]) = 52
    /\ Whole(innerOp[2].params.lon[1]) = 9
    /\ Len(before) = 1
    /\ At(before[1], Metres(Whole(innerOp[2].params.x[1])),
                     Metres(Whole(innerOp[2].params.y[1])))
    /\ At(operands[1], Angle(0), Angle(52))
    /\ applied = Ok(1)

\* C26, a case that holds reached: fwd of laea lat_0=52 lon_0=9 x_0=500000
\* has mapped its centre to its false origin
C26_Forward ==
    /\ Ran /\ ObliqueOrEquatorial
    /\ innerPc = "fwd"
    /\ Whole(innerOp[2].params.x[1]) = 500000
    /\ Len(before) = 1
    /\ At(before[1], Angle(9), Angle(52))
    /\ At(operands[1], Metres(500000), Metres(10000000))

\* C28: the kernels write the slots 0 and 1 only: the slots 2 and 3 of
\* every coordinate, the length of the batch and its order are as they were
\* given, for the coordinates that are rejected too.
C28_SlotsTwoAndThree ==
    innerPc \in {"fwd", "inv", "fwd inv"} =>
        /\ Len(operands) = Len(before)
        /\ \A i \in 1..Len(before) :
               /\ operands[i][3] = before[i][3]
               /\ operands[i][4] = before[i][4]

\* C28 witness: inv of tmerc has rejected the second coordinate of a batch
\* and projected the first; the heights and times are those given, which
\* differ between the two
C28_Witness ==
    /\ Ran
    /\ kernel = "tmerc"
    /\ innerPc = "inv"
    /\ Len(before) = 2
    /\ RejectedGiven = {2}
    /\ NanAt(2)
    /\ operands[1][1][1] = "angle"
    /\ operands[2][3] = Metres(0) /\ operands[2][4] = NanSlot
    /\ operands[1][3] = Metres(100) /\ operands[1][4] = Metres(2020)

\* C28 witness for btmerc and a round trip: the height and the time of a
\* coordinate are those given after fwd and inv
C28_WitnessRoundTrip ==
    /\ innerPc = "fwd inv"
    /\ kernel = "btmerc"
    /\ Len(before) = 2
    /\ operands[1][1][1] = "angle"
    /\ operands[1][3] = Metres(100) /\ operands[1][4] = Metres(2020)

\* The kernels of the Op that a constructor returns
KernelsOf(name) ==
    IF name \in {"utm", "tmerc"} THEN "tmerc"
    ELSE IF name = "butm" THEN "btmerc"
    ELSE "laea"

\* The Op returned, under the name of its kernels
Returned == [innerOp[2] EXCEPT !.kernel = KernelsOf(kernel)]

\* C27: every Op that new of tmerc.rs, utm or new of laea.rs returns holds
\* every precomputed value that its kernels read (tmerc: conformal, tm,
\* scaled_radius, zb; laea: xi_0, qp, rq, d, authalic): the let-else guards
\* of fwd and of inv all find their values, and the return of a success
\* count of 0 for a missing value is not reachable.
C27_Precomputed ==
    (innerPc = "returned" /\ innerOp[1] = "Op") =>
        /\ ListedFor(KernelsOf(kernel)) \subseteq innerOp[2].given
        /\ GuardsPassed(Returned, "fwd")
        /\ GuardsPassed(Returned, "inv")

\* C27 witness: new of tmerc.rs has returned an Op for lat_0=52 k_0=0.9996
C27_Witness ==
    /\ innerPc = "returned"
    /\ kernel = "tmerc"
    /\ innerOp[1] = "Op"
    /\ innerOp[2].params.lat[1] = <<"rad", 52, 0>>
    /\ innerOp[2].params.k[1] = F64(0, 999600000)
    /\ innerOp[2].given = {"scaled_radius", "conformal", "tm", "zb"}

\* C27 witness for utm: the Op of zone 32 holds the four values
C27_WitnessUtm ==
    /\ innerPc = "returned"
    /\ kernel = "utm"
    /\ innerOp[1] = "Op"
    /\ innerOp[2].params.lon[1] = <<"rad", 9, 0>>
    /\ GuardsPassed(Returned, "inv")

\* C27 witness for laea: the Op of a polar aspect holds the six values
C27_WitnessLaea ==
    /\ innerPc = "returned"
    /\ kernel = "laea"
    /\ innerOp[1] = "Op"
    /\ NorthPolar \in innerOp[2].params.bins.boolean
    /\ innerOp[2].given = {"xi_0", "q0", "qp", "rq", "d", "authalic"}

\* C27 witness of a refusal: new of tmerc.rs has returned an error
C27_WitnessErr ==
    /\ innerPc = "returned"
    /\ kernel = "tmerc"
    /\ innerOp[1] = "Err"

====
